---- MODULE Spec2Model ----
(***************************************************************************)
(* BLE_Session of ble_meters.py: one asyncio task per registered device    *)
(* (_connect_to_device), serialised through the asyncio lock _dbus_lock,   *)
(* stopped through the threading lock `running`, and a consumer thread     *)
(* that drains the message queue (message_iter, message_flush, close).     *)
(*                                                                         *)
(* Time is counted in tenths of a second.  Every `await` of the source is  *)
(* a task location (pc); the code between two awaits is one action.  The   *)
(* consumer thread runs in parallel with the scheduler thread, so its      *)
(* reads and writes of `running` and of the queue are separate actions.    *)
(***************************************************************************)
EXTENDS Integers, Sequences, FiniteSets, TLC

\* ---- bounds of the model ----
MaxMsgs == 2
TimeStep == 10
MaxSamples == 5
MaxValue == 4

\* ---- program constants, in tenths of a second ----
SettleDelay == 5
PollTick == 1
WatchTick == 1
\* line 906: the timeout of wait_for_meters, 30 s
WaitLimit == 300
WatchdogLimit == 20
BleakBackoff == 20
TimeoutBackoff == 20

Devices == {1, 2}
NoDevice == 0
Never == -1
AgeCap == WatchdogLimit + TimeStep
LagCap == TimeStep

\* ---- the registry: what register_device is given for each address ----
RecycleFlag(d) == d % 2 = 1
PollSleep(d) == 10
InitSleep(d) == 5
StopSleep(d) == 1

Outcomes == {"ok", "bleak", "timeout", "other"}
DecodeResults == {"reading", "pair", "mismatch", "bare", "raise"}
LiveResults == {"reading", "raise"}

ConnectPcs == {"connect", "subscribe"}
PollPcs == {"poll_sleep", "poll_wait", "poll_write"}
EstablishedPcs == {"init_write", "init_sleep", "watch_sleep"} \cup PollPcs
TerminalPcs == {"closed", "stopped", "failed", "raised", "cancelled"}
\* the consumer inside message_flush, called with drop=False or drop=True
FlushPcs == {"flush", "drop"}

VARIABLES
    pc,          \* where each device task stands in _connect_to_device
    timer,       \* what is left of the sleep a task is in
    pollDue,     \* delay_till of _poll_device, less the present time
    lastseen,    \* age of devices[d]['lastseen'], Never for the value 0
    quiet,       \* time since the subscription's latest notification
    link,        \* state of the BleakClient of each task
    gate,        \* _dbus_lock: locked, waiters, whether the first is woken
    faults,      \* the worst that a transport call has raised so far
    running,     \* the threading lock `running` is locked
    runErr,      \* running.release() has raised RuntimeError
    loop,        \* state of asyncio.run(self._run())
    estAtClear,  \* the tasks that were past line 801 when `running` fell
    cpc,         \* where the consumer thread stands
    queue,       \* self.messages
    nextId,      \* number of the next record
    snapshot,    \* the queue when the latest flush began to drain
    batch,       \* what the latest flush has yielded
    delivered,   \* what message_iter has yielded
    lastMessages, \* self.last_messages: the latest record drained per address
    consumed,    \* the records in the order they left the queue, each with
                 \* the call that took it: "iter", "flush" or "drop"
    decoder,     \* a decoder instance: its model and its self.buffer
    frame,       \* a frame object: its bytes when received, and now
    call,        \* the latest decode call: what it was given and returned
    earlierCall, \* an earlier decode call of the decoder instance
    lcdArg,      \* the lcd given to the latest lcd_to_number call
    number,      \* what the latest lcd_to_number call returned
    values,      \* the sorted samples of the latest statistics call
    stats,       \* what the latest statistics call reported
    session,     \* the global session: its devices dict and recycle set
    lastCall,    \* the latest register_device call for each address
    ini,         \* main() with an INI file: its sections and where it stands
    live,        \* self.live_count, the callback that is under way, and
                 \* what the callbacks have put since the latest drain
    wait         \* wait_for_meters: whether it is under way, its
                 \* waiting_for, and its timeout less the present time

vars == <<pc, timer, pollDue, lastseen, quiet, link, gate, faults,
          running, runErr, loop, estAtClear,
          cpc, queue, nextId, snapshot, batch, delivered,
          lastMessages, consumed,
          decoder, frame, call, earlierCall, lcdArg, number, values, stats,
          session, lastCall, ini, live, wait>>

taskVars == <<pc, timer, pollDue, lastseen, quiet, link, gate, faults>>
consumerVars == <<cpc, queue, nextId, snapshot, batch, delivered,
                  lastMessages, consumed>>
sessionVars == <<taskVars, running, runErr, loop, estAtClear, consumerVars,
                 live, wait>>
setupVars == <<session, lastCall, ini>>
calcVars == <<decoder, frame, call, earlierCall, lcdArg, number, values, stats,
              setupVars>>
\* what the steps of the session leave alone, but for the steps that count
\* and the steps of wait_for_meters
pureVars == <<calcVars, live, wait>>

\* lines 802, 806 and 814: the optional messages of the entry of a device
HasPoll(d) == "poll_msg" \in DOMAIN session.devices[d]
HasInit(d) == "init_msg" \in DOMAIN session.devices[d]
HasStop(d) == "stop_msg" \in DOMAIN session.devices[d]

Min(a, b) == IF a < b THEN a ELSE b
Max(a, b) == IF a > b THEN a ELSE b

\* ---- asyncio.Lock (_dbus_lock) ----
GateRelease(g) ==
    [g EXCEPT !.locked = FALSE, !.owner = NoDevice,
              !.woken = (g.waiters # <<>>)]

GateReleaseIfLocked(g) == IF g.locked THEN GateRelease(g) ELSE g

GateTake(g, d) == [g EXCEPT !.locked = TRUE, !.owner = d]

GateFree(g) == ~g.locked /\ g.waiters = <<>>

RemoveWaiter(s, d) == SelectSeq(s, LAMBDA x : x # d)

\* ---- the decoders (LCD_Decoder and its subclasses) ----
Models == {"TS04", "HP90EPD", "AN9002", "V05B", "WT81B", "UT383BT", "TS02",
           "K1705", "BT7200_APP"}

\* ---- the numbers of the source ----
\* A Python int is PyInt(n).  A Python float is an IEEE 754 double,
\* s * m * 2^e with s the sign and m an integer of 53 bits kept as four
\* limbs of 14 bits, the least significant first; zero has m = 0, e = 0.
\* float('inf'), the text '?' of the strings tables and None are values of
\* their own; "error" is an exception raised in place of a value.
Base == 16384

PyInt(n) == [k |-> "int", n |-> n]

PyFloat(s, m, e) == [k |-> "float", s |-> s, m |-> m, e |-> e]

Zero(s) == PyFloat(s, <<0, 0, 0, 0>>, 0)

Inf == [k |-> "inf"]

Text == [k |-> "text"]

NoneValue == [k |-> "none"]

ErrorValue == [k |-> "error"]

RECURSIVE Pow2(_)
Pow2(i) == IF i = 0 THEN 1 ELSE 2 * Pow2(i - 1)

\* a natural number as limbs, and the operations on limbs that the
\* rounding of a product or a quotient to 53 bits needs
RECURSIVE BigFromInt(_)
BigFromInt(n) == IF n = 0 THEN <<>> ELSE <<n % Base>> \o BigFromInt(n \div Base)

Limb(a, i) == IF i \in 1..Len(a) THEN a[i] ELSE 0

RECURSIVE BitLen(_)
BitLen(a) ==
    IF a = <<>> THEN 0
    ELSE IF a[Len(a)] = 0 THEN BitLen(SubSeq(a, 1, Len(a) - 1))
    ELSE (Len(a) - 1) * 14
         + (CHOOSE i \in 1..14 : a[Len(a)] \in Pow2(i - 1)..(Pow2(i) - 1))

Bit(a, i) == (Limb(a, (i \div 14) + 1) \div Pow2(i % 14)) % 2

RECURSIVE MulSmall(_, _, _)
MulSmall(a, c, carry) ==
    IF a = <<>> THEN BigFromInt(carry)
    ELSE LET t == a[1] * c + carry
         IN <<t % Base>> \o MulSmall(Tail(a), c, t \div Base)

RECURSIVE DivSmall(_, _)
DivSmall(a, d) ==
    IF a = <<>> THEN [q |-> <<>>, rem |-> 0]
    ELSE LET high == DivSmall(Tail(a), d)
             cur == high.rem * Base + a[1]
         IN [q |-> <<cur \div d>> \o high.q, rem |-> cur % d]

ShiftLeft(a, r) ==
    [i \in 1..(r \div 14) |-> 0] \o MulSmall(a, Pow2(r % 14), 0)

ShiftRight(a, r) ==
    LET w == r \div 14
        b == r % 14
    IN [i \in 1..(Len(a) - w) |->
          (Limb(a, i + w) \div Pow2(b))
          + (Limb(a, i + w + 1) % Pow2(b)) * Pow2(14 - b)]

RECURSIVE ColumnSum(_, _, _, _)
ColumnSum(a, b, col, i) ==
    IF i > Len(a) THEN 0
    ELSE Limb(a, i) * Limb(b, col + 1 - i) + ColumnSum(a, b, col, i + 1)

RECURSIVE MulFrom(_, _, _, _)
MulFrom(a, b, col, carry) ==
    IF col > Len(a) + Len(b) THEN <<>>
    ELSE LET t == ColumnSum(a, b, col, 1) + carry
         IN <<t % Base>> \o MulFrom(a, b, col + 1, t \div Base)

\* round half to even: the double nearest to s * big * 2^e, where sticky
\* tells that the exact value is a little above big * 2^e
Nearest(s, big, e, sticky) ==
    LET len == BitLen(big)
        r == len - 53
        q == ShiftRight(big, r)
        up == /\ Bit(big, r - 1) = 1
              /\ \/ sticky \/ Bit(big, r) = 1
                 \/ \E i \in 0..(r - 2) : Bit(big, i) = 1
        q1 == IF up THEN MulSmall(q, 1, 1) ELSE q
        four(a) == [i \in 1..4 |-> Limb(a, i)]
    IN IF len = 0 THEN Zero(s)
       ELSE IF r <= 0 THEN PyFloat(s, four(ShiftLeft(big, 0 - r)), e + r)
       ELSE IF BitLen(q1) > 53
       THEN PyFloat(s, four(ShiftRight(q1, 1)), e + r + 1)
       ELSE PyFloat(s, four(q1), e + r)

\* float(n) of an int n
ToFloat(v) ==
    IF v.k = "int"
    THEN Nearest(IF v.n < 0 THEN -1 ELSE 1,
                 BigFromInt(IF v.n < 0 THEN 0 - v.n ELSE v.n), 0, FALSE)
    ELSE v

\* v * x of Python: an int when both are ints, else a float
Times(v, x) ==
    IF v.k = "int" /\ x.k = "int" THEN PyInt(v.n * x.n)
    ELSE LET a == ToFloat(v)
             b == ToFloat(x)
         IN Nearest(a.s * b.s, MulFrom(a.m, b.m, 1, 0), a.e + b.e, FALSE)

\* n / d of Python for ints n >= 0 and d > 0: the nearest float
TrueDiv(n, d) ==
    LET parts == DivSmall(ShiftLeft(BigFromInt(n), 70), d)
    IN Nearest(1, parts.q, -70, parts.rem # 0)

\* v == w of Python for ints and floats
Equal(v, w) ==
    LET x == ToFloat(v)
        y == ToFloat(w)
    IN IF x.k # "float" \/ y.k # "float" THEN x = y
       ELSE (x.m = y.m /\ x.m = Zero(1).m) \/ x = y

RECURSIVE BitAnd(_, _)
BitAnd(a, b) ==
    IF a = 0 \/ b = 0 THEN 0
    ELSE (a % 2) * (b % 2) + 2 * BitAnd(a \div 2, b \div 2)

RECURSIVE BitXor(_, _)
BitXor(a, b) ==
    IF a = 0 THEN b
    ELSE IF b = 0 THEN a
    ELSE ((a + b) % 2) + 2 * BitXor(a \div 2, b \div 2)

\* data[i] of the source, which counts from 0
Byte(data, i) == data[i + 1]

\* the float literals of the scaling table
\* 0.1 = 0x1.999999999999ap-4
Tenth == PyFloat(1, <<6554, 9830, 6553, 1638>>, -56)

\* 0.01 = 0x1.47ae147ae147bp-7
Hundredth == PyFloat(1, <<5243, 7864, 11796, 1310>>, -59)

\* 0.001 = 0x1.0624dd2f1a9fcp-10
Thousandth == PyFloat(1, <<10748, 3014, 9437, 1048>>, -62)

\* 1e-6 = 0x1.0c6f7a0b5ed8dp-20
Millionth == PyFloat(1, <<11661, 727, 12154, 1073>>, -72)

\* 1e-9 = 0x1.12e0be826d695p-30
Billionth == PyFloat(1, <<5781, 8347, 8382, 1099>>, -82)

\* self.scaling, in the order of the dict: name, factor
scaling ==
    <<<<"negative", PyInt(-1)>>, <<"positive", PyInt(1)>>,
      <<"/1000", Thousandth>>, <<"/100", Hundredth>>, <<"/10", Tenth>>,
      <<"kilo", PyInt(1000)>>, <<"mega", ToFloat(PyInt(1000000))>>,
      <<"milli", Thousandth>>, <<"micro", Millionth>>,
      <<"nano", Billionth>>, <<"x10", PyInt(10)>>, <<"x100", PyInt(100)>>>>

\* self.flags of each decoder: name, byte, bit
flags(model) ==
    CASE model = "TS04" ->
           {<<"negative", 1, 4>>, <<"(auto)", 1, 2>>, <<"DC", 1, 1>>,
            <<"AC", 1, 0>>, <<"/1000", 2, 4>>, <<"/100", 3, 4>>,
            <<"/10", 4, 4>>, <<"diode", 5, 7>>, <<"kilo", 5, 6>>,
            <<"micro", 5, 4>>, <<"(hold)", 6, 7>>, <<"ohms", 6, 5>>,
            <<"continuity", 6, 3>>, <<"mega", 6, 2>>, <<"milli", 6, 0>>,
            <<"NCV", 7, 7>>, <<"bluetooth", 7, 6>>, <<"celsius", 7, 5>>,
            <<"fahrenheit", 7, 4>>, <<"(low_batt)", 7, 3>>,
            <<"volts", 7, 1>>, <<"amps", 7, 0>>, <<"auto_off", 8, 0>>}
      [] model = "HP90EPD" ->
           {<<"(auto)", 0, 1>>, <<"AC", 0, 3>>, <<"(hold)", 11, 0>>,
            <<"mega", 10, 1>>, <<"kilo", 9, 1>>, <<"milli", 10, 3>>,
            <<"micro", 9, 3>>, <<"nano", 9, 2>>, <<"diode", 9, 0>>,
            <<"continuity", 10, 0>>, <<"%duty", 10, 2>>,
            <<"(relative)", 11, 1>>, <<"ohms", 11, 2>>,
            <<"farads", 11, 3>>, <<"hertz", 12, 1>>, <<"volts", 12, 2>>,
            <<"amps", 12, 3>>, <<"celsius", 13, 2>>, <<"negative", 1, 3>>,
            <<"/1000", 3, 3>>, <<"/100", 5, 3>>, <<"/10", 7, 3>>,
            <<"(low_batt)", 12, 0>>, <<"mystery_1", 0, 2>>,
            <<"mystery_2", 13, 0>>}
      [] model = "AN9002" ->
           {<<"(auto)", 10, 0>>, <<"/1000", 4, 4>>, <<"/100", 5, 4>>,
            <<"/10", 6, 4>>, <<"(relative)", 3, 1>>, <<"(maximum)", 8, 0>>,
            <<"(minimum)", 8, 1>>, <<"AC", 8, 3>>, <<"DC", 9, 6>>,
            <<"hertz", 9, 0>>, <<"%duty", 8, 2>>, <<"(hold)", 7, 4>>,
            <<"milli", 9, 5>>, <<"negative", 3, 4>>, <<"celsius", 7, 6>>,
            <<"fahrenheit", 7, 5>>, <<"volts", 9, 4>>, <<"ohms", 9, 1>>,
            <<"mega", 9, 3>>, <<"kilo", 9, 2>>, <<"farads", 8, 4>>,
            <<"nano", 8, 7>>, <<"micro", 8, 5>>, <<"milli", 8, 6>>,
            <<"amps", 9, 7>>, <<"milli", 10, 3>>, <<"micro", 10, 2>>,
            <<"diode", 7, 7>>, <<"continuity", 3, 3>>,
            <<"(low_batt)", 3, 0>>}
      [] model = "V05B" ->
           {<<"/1000", 4, 4>>, <<"/100", 5, 4>>, <<"/10", 6, 4>>,
            <<"AC", 8, 3>>, <<"DC", 8, 2>>, <<"hertz", 9, 5>>,
            <<"(hold)", 3, 1>>, <<"high_volt", 3, 2>>, <<"buzzer", 3, 3>>,
            <<"negative", 3, 4>>, <<"celsius", 9, 7>>,
            <<"fahrenheit", 9, 6>>, <<"volts", 8, 1>>, <<"ohms", 9, 0>>,
            <<"mega", 9, 3>>, <<"kilo", 9, 1>>, <<"farads", 8, 4>>,
            <<"nano", 8, 0>>, <<"micro", 8, 7>>, <<"milli", 9, 2>>,
            <<"amps", 8, 6>>, <<"diode", 8, 5>>}
      [] model = "WT81B" ->
           {<<"x100", 3, 1>>, <<"x10", 3, 0>>}
      [] model = "UT383BT" ->
           {<<"(hold)", 16, 0>>, <<"(maximum)", 16, 3>>,
            <<"(minimum)", 16, 2>>, <<"(low_batt)", 16, 6>>}
      [] model = "TS02" ->
           {<<"negative", 0, 2>>, <<"positive", 0, 1>>}
      [] model = "K1705" ->
           {<<"(overload)", 10, 7>>, <<"negative", 10, 4>>}
      [] model = "BT7200_APP" ->
           {<<"(hold)", 11, 3>>, <<"(auto)", 0, 2>>,
            <<"(minimum)", 14, 1>>, <<"(maximum)", 14, 3>>,
            <<"(relative)", 11, 2>>, <<"(low_batt)", 12, 3>>,
            <<"diode", 9, 3>>, <<"continuity", 10, 3>>, <<"/1000", 3, 0>>,
            <<"/100", 5, 0>>, <<"/10", 7, 0>>, <<"negative", 1, 0>>,
            <<"milli", 10, 0>>, <<"mega", 10, 2>>, <<"DC", 0, 1>>,
            <<"AC", 0, 0>>, <<"ohms", 11, 1>>, <<"hertz", 12, 2>>,
            <<"%duty", 10, 1>>, <<"celsius", 13, 1>>,
            <<"fahrenheit", 13, 0>>, <<"NCV", 13, 3>>, <<"amps", 12, 0>>,
            <<"volts", 12, 1>>}

\* self.segments of each decoder: merged segment bits, character
segments(model) ==
    CASE model = "TS04" ->
           {<<0, " ">>, <<235, "0">>, <<10, "1">>, <<173, "2">>,
            <<143, "3">>, <<78, "4">>, <<199, "5">>, <<231, "6">>,
            <<138, "7">>, <<239, "8">>, <<207, "9">>, <<97, "L">>,
            <<229, "E">>, <<228, "F">>, <<4, "-">>}
      [] model = "HP90EPD" ->
           {<<0, " ">>, <<125, "0">>, <<5, "1">>, <<91, "2">>, <<31, "3">>,
            <<39, "4">>, <<62, "5">>, <<126, "6">>, <<21, "7">>,
            <<127, "8">>, <<63, "9">>, <<104, "L">>}
      [] model = "AN9002" ->
           {<<0, " ">>, <<235, "0">>, <<10, "1">>, <<173, "2">>,
            <<143, "3">>, <<78, "4">>, <<199, "5">>, <<231, "6">>,
            <<138, "7">>, <<239, "8">>, <<207, "9">>, <<97, "L">>,
            <<229, "E">>, <<228, "F">>, <<4, "-">>, <<238, "A">>,
            <<35, "u">>, <<101, "t">>, <<39, "o">>}
      [] model = "V05B" ->
           {<<0, " ">>, <<235, "0">>, <<10, "1">>, <<173, "2">>,
            <<143, "3">>, <<78, "4">>, <<199, "5">>, <<231, "6">>,
            <<138, "7">>, <<239, "8">>, <<207, "9">>, <<97, "L">>,
            <<229, "E">>, <<228, "F">>, <<4, "-">>, <<238, "A">>,
            <<35, "u">>, <<101, "t">>, <<39, "o">>}
      [] model = "WT81B" ->
           {}
      [] model = "UT383BT" ->
           {}
      [] model = "TS02" ->
           {}
      [] model = "K1705" ->
           {}
      [] model = "BT7200_APP" ->
           {<<0, " ">>, <<235, "0">>, <<10, "1">>, <<173, "2">>,
            <<143, "3">>, <<78, "4">>, <<199, "5">>, <<231, "6">>,
            <<138, "7">>, <<239, "8">>, <<207, "9">>, <<97, "L">>,
            <<229, "E">>, <<228, "F">>, <<4, "-">>}

\* self.strings of each decoder: literal digits, value
strings(model) ==
    CASE model = "TS04" ->
           {<<<<" ", " ", " ", " ">>, Text>>,
            <<<<" ", "E", "F", " ">>, PyInt(0)>>,
            <<<<" ", " ", " ", "-">>, PyInt(1)>>,
            <<<<" ", " ", "-", "-">>, PyInt(2)>>,
            <<<<" ", "-", "-", "-">>, PyInt(3)>>,
            <<<<"-", "-", "-", "-">>, PyInt(4)>>,
            <<<<" ", "0", "L", " ">>, Inf>>}
      [] model = "HP90EPD" ->
           {<<<<" ", " ", " ", " ">>, Text>>,
            <<<<" ", "0", "L", " ">>, Inf>>}
      [] model = "AN9002" ->
           {<<<<"A", "u", "t", "o">>, Text>>,
            <<<<" ", " ", " ", " ">>, Text>>,
            <<<<" ", "E", "F", " ">>, PyInt(0)>>,
            <<<<"-", " ", " ", " ">>, PyInt(1)>>,
            <<<<"-", "-", " ", " ">>, PyInt(2)>>,
            <<<<"-", "-", "-", " ">>, PyInt(3)>>,
            <<<<"-", "-", "-", "-">>, PyInt(4)>>,
            <<<<" ", "0", "L", " ">>, Inf>>}
      [] model = "V05B" ->
           {<<<<"A", "u", "t", "o">>, Text>>,
            <<<<" ", " ", " ", " ">>, Text>>,
            <<<<" ", "E", "F", " ">>, PyInt(0)>>,
            <<<<"-", " ", " ", " ">>, PyInt(1)>>,
            <<<<"-", "-", " ", " ">>, PyInt(2)>>,
            <<<<"-", "-", "-", " ">>, PyInt(3)>>,
            <<<<"-", "-", "-", "-">>, PyInt(4)>>,
            <<<<" ", "0", "L", " ">>, Inf>>}
      [] model = "WT81B" ->
           {}
      [] model = "UT383BT" ->
           {<<<<" ", " ", " ", " ", "O", "L">>, Inf>>}
      [] model = "TS02" ->
           {}
      [] model = "K1705" ->
           {}
      [] model = "BT7200_APP" ->
           {<<<<"A", "u", "t", "o">>, Text>>,
            <<<<" ", " ", " ", " ">>, Text>>,
            <<<<" ", "E", "F", " ">>, PyInt(0)>>,
            <<<<"-", " ", " ", " ">>, PyInt(1)>>,
            <<<<"-", "-", " ", " ">>, PyInt(2)>>,
            <<<<"-", "-", "-", " ">>, PyInt(3)>>,
            <<<<"-", "-", "-", "-">>, PyInt(4)>>,
            <<<<" ", "0", "L", " ">>, Inf>>}

\* self.mode_strings of each decoder: literal digits, flag
mode_strings(model) ==
    CASE model = "TS04" ->
           {}
      [] model = "HP90EPD" ->
           {}
      [] model = "AN9002" ->
           {<<<<" ", "E", "F", " ">>, "NCV">>,
            <<<<"-", " ", " ", " ">>, "NCV">>,
            <<<<"-", "-", " ", " ">>, "NCV">>,
            <<<<"-", "-", "-", " ">>, "NCV">>,
            <<<<"-", "-", "-", "-">>, "NCV">>}
      [] model = "V05B" ->
           {<<<<" ", "E", "F", " ">>, "NCV">>,
            <<<<"-", " ", " ", " ">>, "NCV">>,
            <<<<"-", "-", " ", " ">>, "NCV">>,
            <<<<"-", "-", "-", " ">>, "NCV">>,
            <<<<"-", "-", "-", "-">>, "NCV">>}
      [] model = "WT81B" ->
           {}
      [] model = "UT383BT" ->
           {}
      [] model = "TS02" ->
           {}
      [] model = "K1705" ->
           {}
      [] model = "BT7200_APP" ->
           {}

\* self.flip_bits of each decoder
flip_bits(model) ==
    CASE model = "TS04" ->
           <<>>
      [] model = "HP90EPD" ->
           <<>>
      [] model = "AN9002" ->
           <<27, 132, 112, 85, 162, 193, 50, 113, 102, 170, 59>>
      [] model = "V05B" ->
           <<27, 132, 112, 85, 162, 193, 50, 113, 102, 170>>
      [] model = "WT81B" ->
           <<>>
      [] model = "UT383BT" ->
           <<>>
      [] model = "TS02" ->
           <<>>
      [] model = "K1705" ->
           <<>>
      [] model = "BT7200_APP" ->
           <<>>

\* the modes of lcd_to_units, in the order of the list
modes ==
    <<"DC", "AC", "volts", "amps", "ohms", "NCV", "diode", "continuity",
      "celsius", "fahrenheit", "farads", "hertz", "%duty", "lux", "fc",
      "degrees", "%RH", "grams", "(auto)", "(hold)", "(relative)",
      "(maximum)", "(minimum)", "(low_batt)">>

\* a dict lookup: the value of the key, or no value (KeyError)
HasKey(table, key) == \E p \in table : p[1] = key
Lookup(table, key) == (CHOOSE p \in table : p[1] = key)[2]

\* str(n) and int(s, 10) on the characters of a string
DigitChars == <<"0", "1", "2", "3", "4", "5", "6", "7", "8", "9">>

RECURSIVE str(_)
str(n) ==
    IF n < 10 THEN <<DigitChars[n + 1]>>
    ELSE Append(str(n \div 10), DigitChars[(n % 10) + 1])

IsDigit(c) == \E i \in 1..10 : DigitChars[i] = c
DigitValue(c) == (CHOOSE i \in 1..10 : DigitChars[i] = c) - 1

RECURSIVE Decimal(_)
Decimal(s) ==
    IF s = <<>> THEN 0
    ELSE 10 * Decimal(SubSeq(s, 1, Len(s) - 1)) + DigitValue(s[Len(s)])

\* int() strips the blanks around the number and takes a sign; anything
\* else than digits is a ValueError
Strip(s) ==
    LET ink == {i \in 1..Len(s) : s[i] # " "}
    IN IF ink = {} THEN <<>>
       ELSE SubSeq(s, CHOOSE i \in ink : \A j \in ink : i <= j,
                      CHOOSE i \in ink : \A j \in ink : j <= i)

int(s) ==
    LET t == Strip(s)
        signed == t # <<>> /\ t[1] \in {"-", "+"}
        u == IF signed THEN Tail(t) ELSE t
    IN IF u = <<>> \/ \E i \in 1..Len(u) : ~IsDigit(u[i])
       THEN [ok |-> FALSE, n |-> 0]
       ELSE [ok |-> TRUE,
             n |-> IF signed /\ t[1] = "-" THEN 0 - Decimal(u)
                   ELSE Decimal(u)]

\* lines 81-83: n *= x for every flag of self.scaling that is in lcd
ScaleFirst(v, flagset, i) ==
    LET hits == {j \in i..Len(scaling) : scaling[j][1] \in flagset}
        j == CHOOSE x \in hits : \A y \in hits : x <= y
    IN IF hits = {} THEN v ELSE Times(v, scaling[j][2])

RECURSIVE Scale(_, _, _)
Scale(v, flagset, i) ==
    IF i > Len(scaling) THEN v
    ELSE Scale(IF scaling[i][1] \in flagset
               THEN Times(v, scaling[i][2]) ELSE v,
               flagset, i + 1)

lcd_to_number_finite(model, lcd) ==
    IF HasKey(strings(model), lcd.digits)
    THEN Lookup(strings(model), lcd.digits)
    ELSE IF ~int(lcd.digits).ok THEN ErrorValue
    ELSE Scale(PyInt(int(lcd.digits).n), lcd.flags, 1)

\* LCD_Decoder.lcd_to_number
lcd_to_number(model, lcd) ==
    IF HasKey(strings(model), lcd.digits)
    THEN Lookup(strings(model), lcd.digits)
    ELSE IF ~int(lcd.digits).ok THEN ErrorValue
    ELSE IF "(overload)" \in lcd.flags THEN Inf
    ELSE Scale(PyInt(int(lcd.digits).n), lcd.flags, 1)

\* LCD_Decoder.lcd_to_units: the modes that are in lcd
lcd_to_units(lcd) == SelectSeq(modes, LAMBDA mo : mo \in lcd.flags)

\* lines 69-71: the flags whose bit is set in the frame
FlagsOf(model, data) ==
    {f[1] : f \in {g \in flags(model) :
                     BitAnd(Byte(data, g[2]), 2 ^ g[3]) # 0}}

\* merge_digit: the key of the segments table that two bytes make
MergeKey(model, byte1, byte2) ==
    CASE model = "HP90EPD" -> BitAnd(byte1, 7) * 16 + BitAnd(byte2, 15)
      [] model = "BT7200_APP" -> BitAnd(byte1, 14) * 16 + BitAnd(byte2, 15)
      [] OTHER -> BitAnd(byte1, 224) + BitAnd(byte2, 15)

\* decode_digits: the pairs of bytes of the four digits
DigitBytes(model) ==
    CASE model = "TS04" -> <<<<1, 2>>, <<2, 3>>, <<3, 4>>, <<4, 5>>>>
      [] model \in {"AN9002", "V05B"} ->
           <<<<3, 4>>, <<4, 5>>, <<5, 6>>, <<6, 7>>>>
      [] OTHER -> <<<<1, 2>>, <<3, 4>>, <<5, 6>>, <<7, 8>>>>

SegmentModels == {"TS04", "HP90EPD", "AN9002", "V05B", "BT7200_APP"}

DigitKeys(model, data) ==
    [i \in 1..4 |-> MergeKey(model, Byte(data, DigitBytes(model)[i][1]),
                                    Byte(data, DigitBytes(model)[i][2]))]

\* a key of the frame that the segments table does not have
SegmentMiss(model, data) ==
    \E i \in 1..4 : ~HasKey(segments(model), DigitKeys(model, data)[i])

\* decode_digits of each decoder; ok is FALSE when merge_digit raises KeyError
decode_digits(model, data) ==
    CASE model \in SegmentModels ->
           IF SegmentMiss(model, data) THEN [ok |-> FALSE, chars |-> <<>>]
           ELSE [ok |-> TRUE,
                 chars |-> [i \in 1..4 |->
                              Lookup(segments(model),
                                     DigitKeys(model, data)[i])]]
      [] model = "TS02" ->
           [ok |-> TRUE,
            chars |-> str(BitAnd(Byte(data, 1), 15))
                        \o str(BitAnd(Byte(data, 2), 15))
                        \o str(BitAnd(Byte(data, 3), 15))
                        \o str(BitAnd(Byte(data, 4), 15))]
      [] model = "K1705" ->
           [ok |-> TRUE,
            chars |-> str(Byte(data, 11) * 65536 + Byte(data, 12) * 256
                            + Byte(data, 13))]
      [] OTHER -> [ok |-> TRUE, chars |-> <<>>]

\* LCD_Decoder.decode_lcd: the flags and the digits of the frame
decode_lcd(model, data) ==
    LET dg == decode_digits(model, data)
        fl == FlagsOf(model, data)
    IN [ok |-> dg.ok,
        digits |-> dg.chars,
        flags |-> IF dg.ok /\ HasKey(mode_strings(model), dg.chars)
                  THEN fl \cup {Lookup(mode_strings(model), dg.chars)}
                  ELSE fl]

\* ---- what decode returns ----
AbsentTriple ==
    [none |-> TRUE, flags |-> {}, digits |-> <<>>, value |-> NoneValue,
     unit |-> <<>>]

Triple(lcd, value, unit) ==
    [none |-> FALSE, flags |-> lcd.flags, digits |-> lcd.digits,
     value |-> value, unit |-> unit]

\* return [(None, None, None)]
OneAbsent == [kind |-> "list", items |-> <<AbsentTriple>>]
\* return None, None, None
BareTuple == [kind |-> "tuple", items |-> <<>>]
Raised == [kind |-> "raise", items |-> <<>>]
List(items) ==
    IF \E i \in 1..Len(items) : items[i].value = ErrorValue THEN Raised
    ELSE [kind |-> "list", items |-> items]

\* the last two lines of the decode methods built on lcd_to_number
Finish(model, lc, extra) ==
    IF ~lc.ok THEN Raised
    ELSE LET lcd == [lc EXCEPT !.flags = @ \cup extra]
         IN List(<<Triple(lcd, lcd_to_number(model, lcd),
                          lcd_to_units(lcd))>>)

\* LCD_Decoder.match: the bytes against a pattern, Wild for '.'
Wild == -1
match(data, pattern) ==
    /\ Len(pattern) = Len(data)
    /\ \A i \in 1..Len(data) : pattern[i] = Wild \/ pattern[i] = data[i]

\* LCD_Decoder.match2: the high half of every byte against a pattern of
\* hexadecimal digits whose low halves are all '.'
match2(data, highs) ==
    /\ Len(highs) = Len(data)
    /\ \A i \in 1..Len(data) : data[i] \div 16 = highs[i]

\* b'SPP:sendData 08\\s\\n\\' of line 210
SppEcho ==
    <<83, 80, 80, 58, 115, 101, 110, 100, 68, 97, 116, 97, 32, 48, 56, 92,
      115, 92, 110, 92>>

PatternWT81B == <<255, 87, 76, Wild, Wild, Wild, Wild, Wild>>
PatternUT383BT ==
    <<170, 187, 16, 1, 58, Wild, Wild, Wild, Wild, Wild, Wild, 76, 85, 88, Wild,
      48, Wild, Wild, Wild>>
PatternK1705 ==
    <<163, 190, 21, 146, 147, 0, 0, 160, 0, 0, Wild, Wild, Wild, Wild, 255, 62,
      186>>

\* TS02_Decoder.check: the first test that fails decides, and a test of a
\* byte that the frame does not have raises IndexError
CheckTS02(data) ==
    LET good(i) == CASE i = 0 -> BitAnd(Byte(data, 0), 249) = 41
                     [] i = 5 -> Byte(data, 5) = 48
                     [] OTHER -> BitAnd(Byte(data, i), 240) = 48
        stops == {i \in 0..5 : i >= Len(data) \/ ~good(i)}
        first == CHOOSE i \in stops : \A j \in stops : i <= j
    IN IF stops = {} THEN "ok"
       ELSE IF first >= Len(data) THEN "IndexError"
       ELSE "no"

\* lines 658-661: BT7200_APP_Decoder repairs a block that lost or gained a byte
Repair(data) ==
    LET d1 == IF match2(data, <<1, 2, 3, 4, 5, 6, 7, 8, 9, 10, 11, 12, 13,
                                14>>)
              THEN Append(data, 240) ELSE data
    IN IF match2(d1, <<15, 1, 2, 3, 4, 5, 6, 7, 8, 9, 10, 11, 12, 13, 14,
                       15>>)
       THEN Tail(d1) ELSE d1

\* lines 369-370 and 407-408: data[i] ^= x, in the caller's frame
Flip(model, data) ==
    [i \in 1..Len(data) |->
       IF i <= Len(flip_bits(model))
       THEN BitXor(data[i], flip_bits(model)[i]) ELSE data[i]]

\* the shape check of each decode: the frame goes on to decode_lcd
ShapeOk(model, buffer, data) ==
    CASE model = "TS04" -> data # SppEcho /\ Len(data) = 9
      [] model = "HP90EPD" -> Len(data) = 6 /\ Len(buffer) = 8
      [] model = "AN9002" -> Len(data) = 11
      [] model = "V05B" -> Len(data) = 10
      [] model = "WT81B" -> match(data, PatternWT81B) /\ Byte(data, 3) <= 3
      [] model = "UT383BT" -> match(data, PatternUT383BT)
      [] model = "TS02" -> CheckTS02(data) = "ok"
      [] model = "K1705" -> Len(data) # 128 /\ match(data, PatternK1705)
      [] model = "BT7200_APP" ->
           match2(Repair(data), <<1, 2, 3, 4, 5, 6, 7, 8, 9, 10, 11, 12, 13,
                                  14, 15>>)

\* what decode does with a frame that fails the shape check
Mismatch(model, buffer, data) ==
    CASE model = "HP90EPD" ->
           IF Len(data) = 8
           THEN [out |-> OneAbsent, buffer |-> data, data |-> data]
           ELSE [out |-> BareTuple, buffer |-> <<>>, data |-> data]
      [] model = "TS02" /\ CheckTS02(data) = "IndexError" ->
           [out |-> Raised, buffer |-> buffer, data |-> data]
      [] OTHER -> [out |-> OneAbsent, buffer |-> buffer, data |-> data]

\* WT81B_Decoder.decode_lcd and decode
ValuesWT81B(data) ==
    LET fl == FlagsOf("WT81B", data)
        temperature == TrueDiv(Byte(data, 4) * 256 + Byte(data, 5), 10)
        raw == TrueDiv(Byte(data, 6) * 256 + Byte(data, 7), 10)
        x10 == IF "x10" \in fl THEN Times(raw, PyInt(10)) ELSE raw
        x100 == IF "x100" \in fl THEN Times(x10, PyInt(100)) ELSE x10
        lux == IF Equal(x100, PyInt(360600)) THEN Inf ELSE x100
        lcd == [flags |-> fl, digits |-> <<>>]
    IN List(<<Triple(lcd, lux, <<"lux">>),
              Triple(lcd, temperature, <<"celsius">>)>>)

\* bytes(data[5:11]).decode('ascii')
Chr(b) ==
    CASE b = 32 -> " "
      [] b \in 48..57 -> DigitChars[b - 47]
      [] b = 43 -> "+"
      [] b = 45 -> "-"
      [] b = 76 -> "L"
      [] b = 79 -> "O"
      [] OTHER -> "other"

DigitsUT383BT(data) ==
    IF \E i \in 5..10 : Byte(data, i) >= 128
    THEN [ok |-> FALSE, digits |-> <<>>, flags |-> {}]
    ELSE [ok |-> TRUE,
          digits |-> [i \in 1..6 |-> Chr(Byte(data, i + 4))],
          flags |-> FlagsOf("UT383BT", data) \cup {"lux"}]

\* the bytes that decode hands to decode_lcd
Display(model, buffer, data) ==
    CASE model = "HP90EPD" -> buffer \o data
      [] model \in {"AN9002", "V05B"} -> Flip(model, data)
      [] model = "BT7200_APP" -> Repair(data)
      [] OTHER -> data

\* what decode does with a frame of the right shape
Matched(model, buffer, data) ==
    LET shown == Display(model, buffer, data)
        lc == decode_lcd(model, shown)
    IN CASE model = "HP90EPD" ->
              LET dc == IF /\ lc.flags \cap {"volts", "amps"} # {}
                           /\ "AC" \notin lc.flags
                        THEN {"DC"} ELSE {}
              IN IF ~lc.ok
                 THEN [out |-> Raised, buffer |-> buffer, data |-> data]
                 ELSE [out |-> Finish(model, lc, dc), buffer |-> <<>>,
                       data |-> data]
         [] model \in {"AN9002", "V05B"} ->
              [out |-> Finish(model, lc, {}), buffer |-> buffer,
               data |-> shown]
         [] model = "WT81B" ->
              [out |-> ValuesWT81B(data), buffer |-> buffer, data |-> data]
         [] model = "UT383BT" ->
              [out |-> Finish(model, DigitsUT383BT(data), {}),
               buffer |-> buffer, data |-> data]
         [] model = "TS02" ->
              [out |-> Finish(model, lc, {"degrees", "/10"}),
               buffer |-> buffer, data |-> data]
         [] model = "K1705" ->
              [out |-> Finish(model, lc, {"grams", "/100"}),
               buffer |-> buffer, data |-> data]
         [] OTHER ->
              [out |-> Finish(model, lc, {}), buffer |-> buffer,
               data |-> data]

\* decode of the decoder `model` whose buffer is `buffer`: what it returns,
\* the buffer it leaves and the bytes it leaves in the caller's frame
decode(model, buffer, data) ==
    IF ShapeOk(model, buffer, data) THEN Matched(model, buffer, data)
    ELSE Mismatch(model, buffer, data)

\* the frames that the decoders are given
Frames(model) ==
    CASE model = "TS04" ->
           {<<0, 0, 224, 107, 1, 0, 0, 0, 0>>,
            <<0, 16, 224, 107, 1, 64, 0, 0, 0>>,
            <<0, 0, 170, 157, 79, 78, 0, 0, 0>>,
            <<0, 0, 224, 107, 1, 0, 0, 0>>,
            <<0, 32, 0, 0, 0, 0, 0, 0, 0>>}
      [] model = "HP90EPD" ->
           {<<0, 8, 0, 7, 13, 6, 8, 0>>,
            <<0, 0, 0, 0, 5, 5, 11, 0>>,
            <<0, 4, 1, 0, 0, 0, 0, 0>>,
            <<0, 0, 0, 0, 0, 0>>,
            <<0, 2, 0, 4, 0, 0>>,
            <<0, 0, 0, 0, 0>>}
      [] model = "AN9002" ->
           {<<27, 132, 112, 85, 66, 170, 51, 113, 102, 170, 59>>,
            <<27, 132, 112, 69, 66, 170, 51, 113, 102, 174, 59>>,
            <<27, 132, 112, 85, 162, 107, 47, 113, 102, 170, 59>>,
            <<27, 132, 112, 85, 66, 170, 51, 113, 102, 170>>,
            <<27, 132, 112, 117, 162, 193, 50, 113, 102, 170, 59>>}
      [] model = "V05B" ->
           {<<27, 132, 112, 85, 66, 170, 51, 113, 102, 170>>,
            <<27, 132, 112, 69, 66, 170, 51, 113, 102, 162>>,
            <<27, 132, 112, 85, 162, 107, 47, 113, 102, 170>>,
            <<27, 132, 112, 85, 66, 170, 51, 113, 102>>,
            <<27, 132, 112, 117, 162, 193, 50, 113, 102, 170>>}
      [] model = "WT81B" ->
           {<<255, 87, 76, 3, 0, 200, 14, 22>>,
            <<255, 87, 76, 0, 0, 200, 14, 22>>,
            <<255, 87, 76, 2, 0, 200, 140, 220>>,
            <<255, 87, 76, 4, 0, 200, 14, 22>>,
            <<255, 87, 76>>}
      [] model = "UT383BT" ->
           {<<170, 187, 16, 1, 58, 32, 32, 32, 32, 79, 76, 76, 85, 88, 0, 48, 0, 0, 0>>,
            <<170, 187, 16, 1, 58, 32, 32, 32, 32, 79, 76, 76, 85, 88, 0, 48, 9, 0, 0>>,
            <<170, 187, 16, 1, 58, 32, 32, 32, 49, 50, 51, 76, 85, 88, 0, 48, 0, 0, 0>>,
            <<170, 187, 16, 1, 58, 32, 32, 49, 50, 32, 51, 76, 85, 88, 0, 48, 0, 0, 0>>,
            <<170, 187, 16, 1, 58, 32, 32, 32, 49, 50, 51, 76, 85, 88, 0, 48, 0, 0>>,
            <<170, 187, 16, 1, 58, 255, 32, 32, 32, 49, 50, 76, 85, 88, 0, 48, 0, 0, 0>>}
      [] model = "TS02" ->
           {<<43, 49, 50, 51, 52, 48>>,
            <<45, 48, 58, 48, 53, 48>>,
            <<41, 49>>,
            <<40, 49>>,
            <<43, 49, 50, 51, 52, 49>>}
      [] model = "K1705" ->
           {<<163, 190, 21, 146, 147, 0, 0, 160, 0, 0, 144, 0, 1, 2, 255, 62, 186>>,
            <<163, 190, 21, 146, 147, 0, 0, 160, 0, 0, 128, 0, 0, 12, 255, 62, 186>>,
            <<163, 190, 21, 146, 147, 0, 0, 160, 0, 0, 16, 0, 1, 2, 255, 62, 186>>,
            <<163, 190, 21, 146, 147, 0, 0, 160, 0, 0, 0, 0, 0, 12, 255, 62, 186>>,
            <<163, 190, 21, 146, 147, 0, 0, 160, 0, 0, 0, 0, 0, 12, 255, 62>>}
      [] model = "BT7200_APP" ->
           {<<16, 32, 48, 78, 91, 102, 113, 128, 144, 160, 176, 192, 208, 224, 240>>,
            <<16, 33, 48, 78, 91, 102, 113, 128, 144, 160, 180, 192, 208, 224, 240>>,
            <<16, 32, 48, 64, 90, 106, 125, 129, 144, 160, 176, 192, 208, 224>>,
            <<240, 16, 32, 48, 64, 90, 106, 125, 128, 144, 160, 177, 192, 208, 224, 240>>,
            <<16, 32, 48, 78, 91, 102, 113, 128, 144>>,
            <<16, 34, 48, 64, 80, 96, 112, 128, 144, 160, 176, 192, 208, 224, 240>>}
      [] OTHER -> {}

\* ---- decode, lcd_to_number and statistics as they are called ----
NoCall ==
    [made |-> FALSE, orig |-> <<>>, data |-> <<>>, buffer |-> <<>>,
     out |-> [kind |-> "none", items |-> <<>>]]
NoFrame == [orig |-> <<>>, cur |-> <<>>]
NoRegistration ==
    [made |-> FALSE, args |-> <<>>, omitted |-> FALSE, repeated |-> FALSE]

\* ---- registration: register_device ----
\* lines 775-776: register_device tests the set, which is empty
RegisterRecycle(set, d) == IF set # {} THEN set \cup {d} ELSE set

MsgKeys == {"poll_msg", "init_msg", "stop_msg"}
BaseKeys == {"uuid", "cb", "decode", "client", "alias", "lastseen"}

\* the arguments of a register_device call; "None" is an argument left out
RegisterArgs ==
    [notify_uuid : {"ffb2"}, decode : {"None", "decode"},
     callback : {"None"}, poll_msg : {"None", "poll"},
     init_msg : {"None", "init"}, stop_msg : {"None", "stop"},
     alias : {"None"}, recycle : BOOLEAN]

\* lines 764-768 with the defaults of lines 765 and 767
Entry(a) ==
    [k \in BaseKeys |->
        CASE k = "uuid" -> a.notify_uuid
          [] k = "cb" -> IF a.callback = "None" THEN "_message_callback"
                         ELSE a.callback
          [] k = "decode" -> IF a.decode = "None" THEN "identity" ELSE a.decode
          [] k = "alias" -> a.alias
          [] k = "lastseen" -> "0"
          [] OTHER -> "None"]

\* a dict with the key k set to v
SetItem(dict, k, v) ==
    [x \in DOMAIN dict \cup {k} |-> IF x = k THEN v ELSE dict[x]]

\* a registration that updates the entry an address already has
register_device_update(s, address, a) ==
    LET old == IF address \in DOMAIN s.devices THEN s.devices[address]
               ELSE Entry(a)
        given == {k \in MsgKeys : a[k] # "None"}
        entry == [k \in DOMAIN old \cup given |->
                     IF k \in BaseKeys THEN Entry(a)[k]
                     ELSE IF k \in given THEN a[k] ELSE old[k]]
    IN [devices |-> SetItem(s.devices, address, entry),
        recycle |-> RegisterRecycle(s.recycle, address)]

\* lines 763-776: the session after register_device(address, ...)
register_device(s, address, a) ==
    LET given == {k \in MsgKeys : a[k] # "None"}
        entry == [k \in BaseKeys \cup given |->
                     IF k \in BaseKeys THEN Entry(a)[k] ELSE a[k]]
    IN [devices |-> SetItem(s.devices, address, entry),
        recycle |-> RegisterRecycle(s.recycle, address)]

\* the arguments the devices of the session are registered with: device 1
\* with a stop message, device 2 with poll, init and stop message
DeviceArgs(d) ==
    [notify_uuid |-> "ffb2", decode |-> "decode", callback |-> "None",
     poll_msg |-> IF d % 3 = 2 THEN "poll" ELSE "None",
     init_msg |-> IF d % 3 = 2 THEN "init" ELSE "None",
     stop_msg |-> IF d % 3 # 0 THEN "stop" ELSE "None",
     alias |-> "None", recycle |-> RecycleFlag(d)]

\* device 1 with an init and a stop message, device 2 with no message
RetryArgs(d) ==
    [notify_uuid |-> "ffb2", decode |-> "decode", callback |-> "None",
     poll_msg |-> "None",
     init_msg |-> IF d = 1 THEN "init" ELSE "None",
     stop_msg |-> IF d = 1 THEN "stop" ELSE "None",
     alias |-> "None", recycle |-> FALSE]

NoSession == [devices |-> <<>>, recycle |-> {}]

\* no callback stands between line 865 and line 866
NoPending == [addr |-> NoDevice, unit |-> FALSE]

InitCalls ==
    /\ decoder = [model |-> "none", buffer |-> <<>>]
    /\ frame = NoFrame
    /\ call = NoCall
    /\ earlierCall = NoCall
    /\ lcdArg = [digits |-> <<>>, flags |-> {}]
    /\ number = [made |-> FALSE, model |-> "none", out |-> NoneValue]
    /\ values = <<>>
    /\ stats = [made |-> FALSE, minimum |-> 0, quartile1 |-> 0, median |-> 0,
                quartile3 |-> 0, maximum |-> 0]
    /\ ini = [sections |-> <<>>, pos |-> 1, pc |-> "idle"]
    /\ live = [count |-> [d \in Devices |-> 0], pending |-> NoPending,
               entered |-> [d \in Devices |-> 0], reset |-> FALSE]
    /\ wait = [active |-> FALSE, for |-> {}, left |-> 0]

\* no device is registered
InitPure ==
    /\ session = NoSession
    /\ lastCall = [d \in Devices |-> NoRegistration]
    /\ InitCalls

\* register_device was called once for each device, in the order of the
\* addresses, with the arguments args
InitRegistered(args(_)) ==
    /\ session = register_device(register_device(NoSession, 1, args(1)),
                                 2, args(2))
    /\ lastCall = [d \in Devices |->
                      [made |-> TRUE, args |-> args(d), omitted |-> FALSE,
                       repeated |-> FALSE]]
    /\ InitCalls

\* the session after construction
InitSession ==
    /\ pc = [d \in Devices |-> "idle"]
    /\ timer = [d \in Devices |-> 0]
    /\ pollDue = [d \in Devices |-> 0]
    /\ lastseen = [d \in Devices |-> Never]
    /\ quiet = [d \in Devices |-> 0]
    /\ link = [d \in Devices |-> "down"]
    /\ gate = [locked |-> FALSE, waiters |-> <<>>, woken |-> FALSE,
               owner |-> NoDevice]
    /\ faults = "none"
    /\ running = TRUE
    /\ runErr = FALSE
    /\ loop = "idle"
    /\ estAtClear = {}
    /\ cpc = "init"
    /\ queue = <<>>
    /\ nextId = 1
    /\ snapshot = <<>>
    /\ batch = <<>>
    /\ delivered = <<>>
    /\ lastMessages = [d \in Devices |-> 0]
    /\ consumed = <<>>

\* the session with its devices registered
Init == InitRegistered(DeviceArgs) /\ InitSession

\* the session before any registration
InitSetup == InitPure /\ InitSession

\* ---- control flow of _connect_to_device between two awaits ----
\* Each operator gives the next location of the task and the sleep it starts.
StopEntry(d) ==
    IF HasStop(d) THEN [pc |-> "stop_write", timer |-> 0]
                  ELSE [pc |-> "unsubscribe", timer |-> 0]

WatchEntry(d, run) ==
    IF run THEN [pc |-> "watch_sleep", timer |-> WatchTick]
           ELSE StopEntry(d)

PollLoop(d, run) ==
    IF run THEN [pc |-> "poll_sleep", timer |-> PollTick]
           ELSE WatchEntry(d, run)

PollEntry(d, run) ==
    IF HasPoll(d) THEN PollLoop(d, run) ELSE WatchEntry(d, run)

InitEntry(d, run) ==
    IF HasInit(d) THEN [pc |-> "init_write", timer |-> 0]
                  ELSE PollEntry(d, run)

HandlerEntryNoCleanup(d, o, run) ==
    CASE o = "bleak" -> [pc |-> "backoff", timer |-> BleakBackoff]
      [] o = "timeout" -> [pc |-> "backoff", timer |-> TimeoutBackoff]
      [] OTHER -> [pc |-> "failed", timer |-> 0]

\* the except clauses of _connect_to_device, entered with exception o
HandlerEntry(d, o, run) ==
    CASE o = "bleak" -> [pc |-> "backoff", timer |-> BleakBackoff]
      [] o = "timeout" -> [pc |-> "backoff", timer |-> TimeoutBackoff]
      [] OTHER -> IF run THEN [pc |-> "cleanup", timer |-> 0]
                         ELSE [pc |-> "failed", timer |-> 0]

\* the gate as the except clauses and _messy_cleanup leave it
HandlerGateKept(g) == g

HandlerGate(g) == GateReleaseIfLocked(g)

\* the gate after line 801, reached with the gate locked
SettleGateKept(g) == g

SettleGate(g) == GateRelease(g)

TaskUpdate(d, e, g, lk, due) ==
    /\ pc' = [pc EXCEPT ![d] = e.pc]
    /\ timer' = [timer EXCEPT ![d] = e.timer]
    /\ gate' = g
    /\ link' = [link EXCEPT ![d] = lk]
    /\ pollDue' = [pollDue EXCEPT ![d] = IF e.pc \in PollPcs THEN due ELSE 0]
    /\ quiet' = [quiet EXCEPT ![d] = IF lk = "subscribed" THEN @ ELSE 0]

\* an exception o leaves the `async with` block (the client disconnects)
\* and reaches its except clause
Raise(d, o) ==
    TaskUpdate(d, HandlerEntry(d, o, running), HandlerGate(gate), "down", 0)

\* what the transport calls have raised: nothing, connect errors and
\* timeouts only, or an unexpected exception
Worst(f, o) ==
    CASE o = "other" -> "unexpected"
      [] o \in {"bleak", "timeout"} /\ f = "none" -> "transient"
      [] OTHER -> f

\* a call of the transport: it returns, or raises o
Transport(d, e, lk) ==
    \E o \in Outcomes :
       /\ IF o = "ok" THEN TaskUpdate(d, e, gate, lk, 0) ELSE Raise(d, o)
       /\ faults' = Worst(faults, o)

\* a task that goes on to connect without looking at the run signal
AcquiredUnchecked(d, g) ==
    TaskUpdate(d, [pc |-> "connect", timer |-> 0], GateTake(g, d), "down", 0)

\* lines 793-798: acquire the gate, then look at the run signal
Acquired(d, g) ==
    IF running
    THEN TaskUpdate(d, [pc |-> "connect", timer |-> 0], GateTake(g, d),
                    "down", 0)
    ELSE TaskUpdate(d, [pc |-> "stopped", timer |-> 0],
                    GateRelease(GateTake(g, d)), "down", 0)

Acquire(d) ==
    IF GateFree(gate)
    THEN Acquired(d, gate)
    ELSE TaskUpdate(d, [pc |-> "waitgate", timer |-> 0],
                    [gate EXCEPT !.waiters = Append(@, d)], "down", 0)

\* ---- the actions of one device task ----
\* The loop runs one task at a time, from one await to the next.  The only
\* place where a task is left in the middle of such a step is "cleanup",
\* between lines 841 and 842, while the consumer thread runs.
Scheduled == loop = "running" /\ \A e \in Devices : pc[e] # "cleanup"

StartTask(d) ==
    /\ Scheduled /\ pc[d] = "start"
    /\ Acquire(d)
    /\ UNCHANGED <<lastseen, faults, running, runErr, loop, estAtClear,
                   consumerVars>>
    /\ UNCHANGED pureVars

GateWake(d) ==
    /\ Scheduled /\ pc[d] = "waitgate"
    /\ gate.woken /\ gate.waiters # <<>> /\ Head(gate.waiters) = d
    /\ Acquired(d, [gate EXCEPT !.waiters = Tail(@), !.woken = FALSE])
    /\ UNCHANGED <<lastseen, faults, running, runErr, loop, estAtClear,
                   consumerVars>>
    /\ UNCHANGED pureVars

Connect(d) ==
    /\ Scheduled /\ pc[d] = "connect"
    /\ Transport(d, [pc |-> "subscribe", timer |-> 0], "up")
    /\ UNCHANGED <<lastseen, running, runErr, loop, estAtClear, consumerVars>>
    /\ UNCHANGED pureVars

Subscribe(d) ==
    /\ Scheduled /\ pc[d] = "subscribe"
    /\ Transport(d, [pc |-> "settle", timer |-> SettleDelay], "subscribed")
    /\ UNCHANGED <<lastseen, running, runErr, loop, estAtClear, consumerVars>>
    /\ UNCHANGED pureVars

\* line 801 and what follows it up to the next await
SettleWake(d) ==
    /\ Scheduled /\ pc[d] = "settle" /\ timer[d] = 0
    /\ IF gate.locked
       THEN TaskUpdate(d, InitEntry(d, running), SettleGate(gate),
                       "subscribed", PollSleep(d))
       ELSE Raise(d, "other")
    /\ UNCHANGED <<lastseen, faults, running, runErr, loop, estAtClear,
                   consumerVars>>
    /\ UNCHANGED pureVars

InitWrite(d) ==
    /\ Scheduled /\ pc[d] = "init_write"
    /\ Transport(d, [pc |-> "init_sleep", timer |-> InitSleep(d)], "subscribed")
    /\ UNCHANGED <<lastseen, running, runErr, loop, estAtClear, consumerVars>>
    /\ UNCHANGED pureVars

InitSleepWake(d) ==
    /\ Scheduled /\ pc[d] = "init_sleep" /\ timer[d] = 0
    /\ TaskUpdate(d, PollEntry(d, running), gate, "subscribed", PollSleep(d))
    /\ UNCHANGED <<lastseen, faults, running, runErr, loop, estAtClear,
                   consumerVars>>
    /\ UNCHANGED pureVars

\* lines 781-784: the tick is over, is the next poll due within a tick?
PollSleepWake(d) ==
    /\ Scheduled /\ pc[d] = "poll_sleep" /\ timer[d] = 0
    /\ LET waiting == pollDue[d] IN
       IF waiting > PollTick
       THEN TaskUpdate(d, PollLoop(d, running), gate, "subscribed", waiting)
       ELSE TaskUpdate(d, [pc |-> "poll_wait", timer |-> Max(0, waiting)],
                       gate, "subscribed", waiting)
    /\ UNCHANGED <<lastseen, faults, running, runErr, loop, estAtClear,
                   consumerVars>>
    /\ UNCHANGED pureVars

\* lines 785-789: what is left of the interval has passed (nothing, when
\* the poll was already due), write_gatt_char is called
PollWaitWake(d) ==
    /\ Scheduled /\ pc[d] = "poll_wait" /\ timer[d] = 0
    /\ TaskUpdate(d, [pc |-> "poll_write", timer |-> 0], gate, "subscribed",
                  pollDue[d])
    /\ UNCHANGED <<lastseen, faults, running, runErr, loop, estAtClear,
                   consumerVars>>
    /\ UNCHANGED pureVars

\* a poll loop that counts the next interval from the time of the write
PollWriteFromNow(d) ==
    /\ Scheduled /\ pc[d] = "poll_write"
    /\ \E o \in Outcomes :
          /\ IF o = "ok"
             THEN TaskUpdate(d, PollLoop(d, running), gate, "subscribed",
                             PollSleep(d))
             ELSE Raise(d, o)
          /\ faults' = Worst(faults, o)
    /\ UNCHANGED <<lastseen, running, runErr, loop, estAtClear, consumerVars>>
    /\ UNCHANGED pureVars

\* lines 789-790 and the loop test of line 780
PollWrite(d) ==
    /\ Scheduled /\ pc[d] = "poll_write"
    /\ \E o \in Outcomes :
          /\ IF o = "ok"
             THEN TaskUpdate(d, PollLoop(d, running), gate, "subscribed",
                             pollDue[d] + PollSleep(d))
             ELSE Raise(d, o)
          /\ faults' = Worst(faults, o)
    /\ UNCHANGED <<lastseen, running, runErr, loop, estAtClear, consumerVars>>
    /\ UNCHANGED pureVars

\* a watchdog that does not look at the age of lastseen
WatchdogEager(d) == lastseen[d] # Never

\* lines 809-813: the watchdog
WatchdogExpired(d) == lastseen[d] # Never /\ lastseen[d] > WatchdogLimit

\* a watchdog that forgets every device when it declares the loss of one
WatchWakeAll(d) ==
    /\ Scheduled /\ pc[d] = "watch_sleep" /\ timer[d] = 0
    /\ IF WatchdogExpired(d)
       THEN /\ lastseen' = [e \in Devices |-> Never]
            /\ Raise(d, "timeout")
       ELSE /\ lastseen' = lastseen
            /\ TaskUpdate(d, WatchEntry(d, running), gate, "subscribed", 0)
    /\ UNCHANGED <<faults, running, runErr, loop, estAtClear, consumerVars>>
    /\ UNCHANGED pureVars

WatchWake(d) ==
    /\ Scheduled /\ pc[d] = "watch_sleep" /\ timer[d] = 0
    /\ IF WatchdogExpired(d)
       THEN /\ lastseen' = [lastseen EXCEPT ![d] = Never]
            /\ Raise(d, "timeout")
       ELSE /\ lastseen' = lastseen
            /\ TaskUpdate(d, WatchEntry(d, running), gate, "subscribed", 0)
    /\ UNCHANGED <<faults, running, runErr, loop, estAtClear, consumerVars>>
    /\ UNCHANGED pureVars

StopWrite(d) ==
    /\ Scheduled /\ pc[d] = "stop_write"
    /\ Transport(d, [pc |-> "stop_sleep", timer |-> StopSleep(d)], "subscribed")
    /\ UNCHANGED <<lastseen, running, runErr, loop, estAtClear, consumerVars>>
    /\ UNCHANGED pureVars

StopSleepWake(d) ==
    /\ Scheduled /\ pc[d] = "stop_sleep" /\ timer[d] = 0
    /\ TaskUpdate(d, [pc |-> "unsubscribe", timer |-> 0], gate, "subscribed", 0)
    /\ UNCHANGED <<lastseen, faults, running, runErr, loop, estAtClear,
                   consumerVars>>
    /\ UNCHANGED pureVars

Unsubscribe(d) ==
    /\ Scheduled /\ pc[d] = "unsubscribe"
    /\ Transport(d, [pc |-> "disconnect", timer |-> 0], "up")
    /\ UNCHANGED <<lastseen, running, runErr, loop, estAtClear, consumerVars>>
    /\ UNCHANGED pureVars

\* leaving the `async with` block after the last statement of its body
Disconnect(d) ==
    /\ Scheduled /\ pc[d] = "disconnect"
    /\ TaskUpdate(d, [pc |-> "closed", timer |-> 0], gate, "down", 0)
    /\ UNCHANGED <<lastseen, faults, running, runErr, loop, estAtClear,
                   consumerVars>>
    /\ UNCHANGED pureVars

\* lines 823-824 and 832-833: the backoff ends, the task calls itself
BackoffWake(d) ==
    /\ Scheduled /\ pc[d] = "backoff" /\ timer[d] = 0
    /\ Acquire(d)
    /\ UNCHANGED <<lastseen, faults, running, runErr, loop, estAtClear,
                   consumerVars>>
    /\ UNCHANGED pureVars

\* line 842 of _messy_cleanup, after is_running() of line 841 was true
CleanupRelease(d) ==
    /\ loop = "running" /\ pc[d] = "cleanup"
    /\ IF running
       THEN /\ running' = FALSE
            /\ estAtClear' = {x \in Devices : pc[x] \in EstablishedPcs}
            /\ pc' = [pc EXCEPT ![d] = "failed"]
            /\ UNCHANGED <<runErr, loop>>
       ELSE /\ runErr' = TRUE
            /\ loop' = "failing"
            /\ pc' = [pc EXCEPT ![d] = "raised"]
            /\ UNCHANGED <<running, estAtClear>>
    /\ UNCHANGED <<timer, pollDue, lastseen, quiet, link, gate, faults,
                   consumerVars>>
    /\ UNCHANGED pureVars

\* asyncio.run cancels the tasks that are left when _run has raised.  A
\* waiter that the release of line 840 has woken runs before the
\* cancellation only if its wake-up is called within the three turns of the
\* loop that pass until asyncio.run stops it (the fourth waiter in line is
\* cancelled while it waits); the turns are not counted here, a waiter that
\* is left is cancelled.
Cancel(d) ==
    /\ loop = "failing" /\ pc[d] \notin TerminalPcs
    /\ LET w == RemoveWaiter(gate.waiters, d)
           g == IF pc[d] # "waitgate" THEN gate
                ELSE [gate EXCEPT !.waiters = w,
                        !.woken = IF ~gate.locked THEN w # <<>>
                                  ELSE IF Head(gate.waiters) = d THEN FALSE
                                  ELSE @]
       IN TaskUpdate(d, [pc |-> "cancelled", timer |-> 0], g, "down", 0)
    /\ UNCHANGED <<lastseen, faults, running, runErr, loop, estAtClear,
                   consumerVars>>
    /\ UNCHANGED pureVars

\* asyncio.gather of _run has every result: the scheduler thread ends
RunEnd ==
    /\ loop \in {"running", "failing"}
    /\ \A d \in Devices : pc[d] \in TerminalPcs
    /\ loop' = IF loop = "running" THEN "finished" ELSE "failed"
    /\ UNCHANGED <<taskVars, running, runErr, estAtClear, consumerVars>>
    /\ UNCHANGED pureVars

\* ---- _message_callback, on the scheduler thread ----
\* What a record carries: the element r of the decoder's result.  A triple
\* has its value and its unit, or neither; an element that is no triple is
\* a None of the bare tuple of line 286.
Reading == [triple |-> TRUE, value |-> TRUE, unit |-> TRUE]
Absent == [triple |-> TRUE, value |-> FALSE, unit |-> FALSE]
NotATriple == [triple |-> FALSE, value |-> FALSE, unit |-> FALSE]

\* line 862: what the for loop of line 863 iterates over; nothing when the
\* decoder raised
Results(r) ==
    CASE r = "reading" -> <<Reading>>
      [] r = "pair" -> <<Reading, Reading>>
      [] r = "mismatch" -> <<Absent>>
      [] r = "bare" -> <<NotATriple, NotATriple, NotATriple>>
      [] OTHER -> <<>>

\* lines 863-866: every element is put on the queue before reporting reads
\* r[2], which raises on an element that is no triple and ends the loop
Puts(res) ==
    LET bad == {i \in 1..Len(res) : ~res[i].triple}
    IN IF bad = {} THEN res
       ELSE SubSeq(res, 1, CHOOSE i \in bad : \A j \in bad : i <= j)

EnqueueFront(q, recs) == recs \o q

\* line 865: queue.Queue.put
Enqueue(q, recs) == q \o recs

Notify(d, r) ==
    /\ Scheduled /\ link[d] = "subscribed"
    /\ LET puts == Puts(Results(r))
       IN /\ nextId + Len(puts) - 1 <= MaxMsgs
          /\ queue' = Enqueue(queue,
                         [i \in 1..Len(puts) |->
                            [addr |-> d, id |-> nextId + i - 1,
                             data |-> puts[i]]])
          /\ nextId' = nextId + Len(puts)
          \* line 867 is reached when an iteration of the loop completes
          /\ lastseen' = IF puts # <<>> /\ puts[1].triple
                         THEN [lastseen EXCEPT ![d] = 0]
                         ELSE lastseen
    /\ quiet' = [quiet EXCEPT ![d] = 0]
    /\ UNCHANGED <<pc, timer, pollDue, link, gate, faults, running, runErr,
                   loop, estAtClear, cpc, snapshot, batch, delivered,
                   lastMessages, consumed>>
    /\ UNCHANGED pureVars

\* ---- time passes ----
Tick ==
    /\ timer' = [d \in Devices |-> Max(0, timer[d] - TimeStep)]
    /\ lastseen' = [d \in Devices |->
                      IF lastseen[d] = Never THEN Never
                      ELSE Min(AgeCap, lastseen[d] + TimeStep)]
    /\ quiet' = [d \in Devices |->
                   IF link[d] = "subscribed"
                   THEN Min(AgeCap, quiet[d] + TimeStep) ELSE 0]
    /\ pollDue' = [d \in Devices |->
                     IF pc[d] \in PollPcs
                     THEN Max(0 - LagCap, pollDue[d] - TimeStep) ELSE 0]
    /\ UNCHANGED <<pc, link, gate, faults, running, runErr, loop,
                   estAtClear, consumerVars>>
    /\ UNCHANGED pureVars

\* ---- the consumer thread ----
\* start(): the scheduler thread runs _run, which makes one task per device
Start ==
    /\ cpc = "init"
    /\ cpc' = "main"
    /\ loop' = "running"
    /\ pc' = [d \in Devices |-> "start"]
    /\ UNCHANGED <<timer, pollDue, lastseen, quiet, link, gate, faults,
                   running, runErr, estAtClear, queue, nextId, snapshot,
                   batch, delivered,
                   lastMessages, consumed>>
    /\ UNCHANGED pureVars

\* message_iter: the caller asks the generator for the next record
IterBegin ==
    /\ cpc = "main"
    /\ cpc' = "iter"
    /\ UNCHANGED <<taskVars, running, runErr, loop, estAtClear, queue, nextId,
                   snapshot, batch, delivered,
                   lastMessages, consumed>>
    /\ UNCHANGED pureVars

\* line 870
IterCheck ==
    /\ cpc = "iter"
    /\ cpc' = IF running THEN "iter_get" ELSE "main"
    /\ UNCHANGED <<taskVars, running, runErr, loop, estAtClear, queue, nextId,
                   snapshot, batch, delivered,
                   lastMessages, consumed>>
    /\ UNCHANGED pureVars

\* a record that message_iter, message_flush or message_flush(drop=True)
\* has taken from the queue
Taken(m, by) == [addr |-> m.addr, id |-> m.id, data |-> m.data, by |-> by]

\* a get() that yields the head of the queue and leaves it there
IterGetPeek ==
    /\ cpc = "iter_get"
    /\ IF queue # <<>>
       THEN /\ delivered' = Append(delivered, Head(queue).id)
            /\ consumed' = Append(consumed, Taken(Head(queue), "iter"))
            /\ cpc' \in {"iter", "main"}
       ELSE /\ cpc' = "iter"
            /\ UNCHANGED <<delivered, consumed>>
    /\ UNCHANGED <<taskVars, running, runErr, loop, estAtClear, nextId, queue,
                   snapshot, batch, lastMessages>>
    /\ UNCHANGED pureVars

\* lines 872, 877-879: get() returns a record, which is yielded, or times out
IterGet ==
    /\ cpc = "iter_get"
    /\ IF queue # <<>>
       THEN /\ delivered' = Append(delivered, Head(queue).id)
            /\ consumed' = Append(consumed, Taken(Head(queue), "iter"))
            /\ queue' = Tail(queue)
            /\ cpc' \in {"iter", "main"}
       ELSE /\ cpc' = "iter"
            /\ UNCHANGED <<queue, delivered, consumed>>
    /\ UNCHANGED <<taskVars, running, runErr, loop, estAtClear, nextId,
                   snapshot, batch, lastMessages>>
    /\ UNCHANGED pureVars

\* lines 873-876: KeyboardInterrupt while waiting in get()
IterInterrupt ==
    /\ cpc = "iter_get"
    /\ IF running
       THEN /\ running' = FALSE
            /\ estAtClear' = {x \in Devices : pc[x] \in EstablishedPcs}
            /\ cpc' = "iter"
            /\ UNCHANGED runErr
       ELSE /\ runErr' = TRUE
            /\ cpc' = "crashed"
            /\ UNCHANGED <<running, estAtClear>>
    /\ UNCHANGED <<taskVars, loop, queue, nextId, snapshot, batch, delivered,
                   lastMessages, consumed>>
    /\ UNCHANGED pureVars

\* self.recycle once every device is registered
recycle ==
    LET reg[ds \in SUBSET Devices] ==
           IF ds = {} THEN {}
           ELSE LET d == CHOOSE x \in ds : \A y \in ds : y <= x
                IN RegisterRecycle(reg[ds \ {d}], d)
    IN reg[Devices]

\* lines 889-894: the drain is over; line 894 reads the name last_messages,
\* which is not defined, for an address of self.recycle that has a record
FlushEnd(last) ==
    IF \E a \in recycle : last[a] # 0 THEN "crashed" ELSE "main"

\* message_flush: the generator starts to drain with the first loop test
\* of line 881, and takes the first record if there is one; with drop=True
\* line 886 yields nothing
FlushBegin ==
    /\ cpc = "main"
    /\ snapshot' = [i \in 1..Len(queue) |-> queue[i].id]
    /\ IF queue # <<>>
       THEN /\ batch' = <<Head(queue).id>>
            /\ lastMessages' = [lastMessages EXCEPT
                                  ![Head(queue).addr] = Head(queue).id]
            /\ \E by \in FlushPcs :
                  /\ consumed' = Append(consumed, Taken(Head(queue), by))
                  /\ cpc' = by
            /\ queue' = Tail(queue)
       ELSE /\ batch' = <<>>
            /\ cpc' = FlushEnd(lastMessages)
            /\ UNCHANGED <<queue, lastMessages, consumed>>
    /\ UNCHANGED <<taskVars, running, runErr, loop, estAtClear, nextId,
                   delivered>>
    /\ UNCHANGED pureVars

\* lines 881-888: one turn of the drain loop, or its end
FlushStep ==
    /\ cpc \in FlushPcs
    /\ IF queue # <<>>
       THEN /\ batch' = Append(batch, Head(queue).id)
            /\ lastMessages' = [lastMessages EXCEPT
                                  ![Head(queue).addr] = Head(queue).id]
            /\ consumed' = Append(consumed, Taken(Head(queue), cpc))
            /\ queue' = Tail(queue)
            /\ UNCHANGED cpc
       ELSE /\ cpc' = FlushEnd(lastMessages)
            /\ UNCHANGED <<queue, batch, lastMessages, consumed>>
    /\ UNCHANGED <<taskVars, running, runErr, loop, estAtClear, nextId,
                   snapshot, delivered>>
    /\ UNCHANGED pureVars

\* close(), line 896
CloseCheck ==
    /\ cpc = "main"
    /\ cpc' = IF running THEN "close_rel" ELSE "join"
    /\ UNCHANGED <<taskVars, running, runErr, loop, estAtClear, queue, nextId,
                   snapshot, batch, delivered,
                   lastMessages, consumed>>
    /\ UNCHANGED pureVars

\* a release that sets a signal it finds cleared
CloseReleaseToggle ==
    /\ cpc = "close_rel"
    /\ running' = ~running
    /\ estAtClear' = {x \in Devices : pc[x] \in EstablishedPcs}
    /\ cpc' = "join"
    /\ UNCHANGED runErr
    /\ UNCHANGED <<taskVars, loop, queue, nextId, snapshot, batch, delivered,
                   lastMessages, consumed>>
    /\ UNCHANGED pureVars

\* close(), line 897
CloseRelease ==
    /\ cpc = "close_rel"
    /\ IF running
       THEN /\ running' = FALSE
            /\ estAtClear' = {x \in Devices : pc[x] \in EstablishedPcs}
            /\ cpc' = "join"
            /\ UNCHANGED runErr
       ELSE /\ runErr' = TRUE
            /\ cpc' = "crashed"
            /\ UNCHANGED <<running, estAtClear>>
    /\ UNCHANGED <<taskVars, loop, queue, nextId, snapshot, batch, delivered,
                   lastMessages, consumed>>
    /\ UNCHANGED pureVars

JoinEarly ==
    /\ cpc = "join"
    /\ cpc' = "closed"
    /\ UNCHANGED <<taskVars, running, runErr, loop, estAtClear, queue, nextId,
                   snapshot, batch, delivered,
                   lastMessages, consumed>>
    /\ UNCHANGED pureVars

\* close(), line 898
Join ==
    /\ cpc = "join"
    /\ loop \in {"finished", "failed"}
    /\ cpc' = "closed"
    /\ UNCHANGED <<taskVars, running, runErr, loop, estAtClear, queue, nextId,
                   snapshot, batch, delivered,
                   lastMessages, consumed>>
    /\ UNCHANGED pureVars

TaskStep(d) ==
    \/ StartTask(d) \/ GateWake(d) \/ Connect(d) \/ Subscribe(d)
    \/ SettleWake(d) \/ InitWrite(d) \/ InitSleepWake(d)
    \/ PollSleepWake(d) \/ PollWaitWake(d) \/ PollWrite(d)
    \/ WatchWake(d) \/ StopWrite(d) \/ StopSleepWake(d)
    \/ Unsubscribe(d) \/ Disconnect(d) \/ BackoffWake(d)
    \/ CleanupRelease(d) \/ Cancel(d)

CloseStep == CloseCheck \/ CloseRelease \/ Join

IterStep == IterBegin \/ IterCheck \/ IterGet \/ IterInterrupt

FlushCall == FlushBegin \/ FlushStep

\* The watchdog of line 811 is the only reader of lastseen, and a task with a
\* poll message reaches it only with the run signal cleared, when its loop is
\* not entered: the frames of a polled device change nothing that a task
\* reads.  The session is explored with the frames of the other devices.
Talkers == {d \in Devices : ~HasPoll(d)}

\* The session with a consumer that starts it and closes it.
Next ==
    \/ \E d \in Devices : TaskStep(d)
    \/ \E d \in Talkers : \E r \in LiveResults : Notify(d, r)
    \/ RunEnd
    \/ Tick
    \/ Start
    \/ CloseStep

Spec == Init /\ [][Next]_vars

\* The asyncio loop runs every task that is ready, time passes, and a
\* close() that was called goes on.
Fairness ==
    /\ \A d \in Devices : WF_vars(TaskStep(d))
    /\ WF_vars(RunEnd)
    /\ WF_vars(Tick)
    /\ WF_vars(CloseRelease \/ Join)

FairSpec == Spec /\ Fairness

\* The reading stream: every device is subscribed and active, the callbacks
\* enqueue on the scheduler thread and the consumer iterates and flushes.
InitStream ==
    /\ InitRegistered(DeviceArgs)
    /\ pc = [d \in Devices |-> PollEntry(d, TRUE).pc]
    /\ timer = [d \in Devices |-> PollEntry(d, TRUE).timer]
    /\ pollDue = [d \in Devices |-> IF HasPoll(d) THEN PollSleep(d) ELSE 0]
    /\ lastseen = [d \in Devices |-> Never]
    /\ quiet = [d \in Devices |-> 0]
    /\ link = [d \in Devices |-> "subscribed"]
    /\ gate = [locked |-> FALSE, waiters |-> <<>>, woken |-> FALSE,
               owner |-> NoDevice]
    /\ faults = "none"
    /\ running = TRUE
    /\ runErr = FALSE
    /\ loop = "running"
    /\ estAtClear = {}
    /\ cpc = "main"
    /\ queue = <<>>
    /\ nextId = 1
    /\ snapshot = <<>>
    /\ batch = <<>>
    /\ delivered = <<>>
    /\ lastMessages = [d \in Devices |-> 0]
    /\ consumed = <<>>

NextStream ==
    \/ \E d \in Devices : \E r \in DecodeResults : Notify(d, r)
    \/ IterStep
    \/ FlushCall

StreamSpec == InitStream /\ [][NextStream]_vars

\* make_decoder(model): a new decoder instance
MakeDecoder(model) ==
    /\ decoder.model = "none"
    /\ decoder' = [model |-> model, buffer |-> <<>>]
    /\ UNCHANGED <<sessionVars, frame, call, earlierCall, lcdArg, number, values,
                   stats, setupVars>>

\* the transport hands a new frame object to the callback
Receive(f) ==
    /\ decoder.model \in Models
    /\ f \in Frames(decoder.model)
    /\ frame' = [orig |-> f, cur |-> f]
    /\ UNCHANGED <<sessionVars, decoder, call, earlierCall, lcdArg, number,
                   values, stats, setupVars>>

\* decode(data) on the frame object at hand, for the first time or again
CallDecode ==
    /\ frame # NoFrame
    /\ \E r \in {decode(decoder.model, decoder.buffer, frame.cur)} :
          \E c \in {[made |-> TRUE, orig |-> frame.orig, data |-> frame.cur,
                      buffer |-> decoder.buffer, out |-> r.out]} :
             /\ call' = c
             /\ earlierCall' \in {earlierCall, c}
             /\ decoder' = [decoder EXCEPT !.buffer = r.buffer]
             /\ frame' = [frame EXCEPT !.cur = r.data]
    /\ UNCHANGED <<sessionVars, lcdArg, number, values, stats, setupVars>>

NextDecode ==
    \/ \E model \in Models : MakeDecoder(model)
    \/ \E f \in Frames(decoder.model) : Receive(f)
    \/ CallDecode

DecodeSpec == Init /\ [][NextDecode]_vars

\* the decoded displays that lcd_to_number is given
DigitStrings ==
    {<<"1", "2", "3", "4">>, <<" ", "1", "2", " ">>, <<" ", "0", "L", " ">>,
     <<" ", " ", "-", "5">>, <<" ", " ", " ", "3">>}

SampleFlags == {"kilo", "/100", "/10", "negative", "micro", "(overload)"}

\* self.lcd_to_number(lcd) of a decoder of the given model
CallLcdToNumber(model, l) ==
    /\ ~number.made
    /\ lcdArg' = l
    /\ number' = [made |-> TRUE, model |-> model,
                  out |-> lcd_to_number(model, l)]
    /\ UNCHANGED <<sessionVars, decoder, frame, call, earlierCall, values,
                   stats, setupVars>>

NextNumber ==
    \E model \in Models :
       \E l \in [digits : DigitStrings, flags : SUBSET SampleFlags] :
          CallLcdToNumber(model, l)

NumberSpec == Init /\ [][NextNumber]_vars

\* sorted(): the values in ascending order
RECURSIVE sorted(_)
sorted(s) ==
    IF s = <<>> THEN <<>>
    ELSE LET rest == sorted(Tail(s))
             small == SelectSeq(rest, LAMBDA x : x <= Head(s))
             large == SelectSeq(rest, LAMBDA x : x > Head(s))
         IN small \o <<Head(s)>> \o large

\* int(round(len(values) * q)) for q a number of quarters: Python rounds a
\* half to the even neighbour
round(n, quarters) ==
    LET k == n * quarters
        q == k \div 4
        r == k % 4
    IN IF r < 2 THEN q
       ELSE IF r > 2 THEN q + 1
       ELSE IF q % 2 = 0 THEN q ELSE q + 1

IndexError == -1
\* values[i] of the source, which counts from 0
Item(s, i) == IF i < 0 \/ i >= Len(s) THEN IndexError ELSE s[i + 1]

Quartile3Unclamped(n) == round(n, 3)

\* line 1059: min(int(round(len(values) * 0.75)), len(values)-1)
Quartile3Index(n) == Min(round(n, 3), n - 1)

\* statistics(): the order statistics of one column of samples
CallStatistics(samples) ==
    /\ values' = sorted(samples)
    /\ stats' = LET v == sorted(samples)
                    n == Len(v)
                IN [made |-> TRUE,
                    minimum |-> v[1],
                    quartile1 |-> Item(v, round(n, 1)),
                    median |-> Item(v, n \div 2),
                    quartile3 |-> Item(v, Quartile3Index(n)),
                    maximum |-> v[n]]
    /\ UNCHANGED <<sessionVars, decoder, frame, call, earlierCall, lcdArg,
                   number, setupVars>>

RECURSIVE SeqsUpTo(_)
SeqsUpTo(n) ==
    IF n = 0 THEN {<<>>}
    ELSE LET shorter == SeqsUpTo(n - 1)
         IN shorter \cup {Append(s, x) : s \in shorter, x \in 1..MaxValue}

NextStat ==
    \E samples \in SeqsUpTo(MaxSamples) \ {<<>>} : CallStatistics(samples)

StatSpec == Init /\ [][NextStat]_vars

\* ---- registration as its callers use it ----
\* what a call leaves in the record of the calls: its arguments, whether it
\* left out a message that the entry of the address held, and whether it
\* repeated the arguments of the call before it for the address
Called(address, a) ==
    [lastCall EXCEPT ![address] =
        [made |-> TRUE, args |-> a,
         omitted |-> /\ address \in DOMAIN session.devices
                     /\ \E k \in MsgKeys :
                           /\ k \in DOMAIN session.devices[address]
                           /\ a[k] = "None",
         repeated |-> lastCall[address].made /\ lastCall[address].args = a]]

RegisterDevice(address, a) ==
    /\ session' = register_device(session, address, a)
    /\ lastCall' = Called(address, a)
    /\ UNCHANGED <<sessionVars, decoder, frame, call, earlierCall, lcdArg,
                   number, values, stats, ini>>

NextRegister ==
    \E address \in Devices : \E a \in RegisterArgs : RegisterDevice(address, a)

RegisterSpec == InitSetup /\ [][NextRegister]_vars

\* ---- startup: main with an INI file ----
MaxSections == 3

MeterTypes == {"ble:dmm", "ble:luxmeter", "ble:ir_thermometer"}

\* the Model values of the sections: three names make_decoder knows, one it
\* does not know, and a section without the key
IniModels == {"TS04", "WT81B", "BT985C_APP", "bogus", "absent"}

\* a section: its Type ("absent" without the key), Model and Address
IniSections ==
    {[Type |-> t, Model |-> "absent", Address |-> 1] :
        t \in {"absent", "ble:scope"}}
       \cup [Type : {"ble:dmm"}, Model : IniModels, Address : Devices]

IniFiles == UNION {[1..n -> IniSections] : n \in 1..MaxSections}

\* a decoder for any name: the dummy one for a name that is not known
make_decoder_default(model) ==
    CASE model = "WT81B" ->
            [ok |-> TRUE, notify_uuid |-> "ff02", poll_msg |-> "poll",
             init_msg |-> "None", stop_msg |-> "None"]
      [] model = "BT985C_APP" ->
            [ok |-> TRUE, notify_uuid |-> "ffb2", poll_msg |-> "poll",
             init_msg |-> "init", stop_msg |-> "stop"]
      [] model = "TS04" ->
            [ok |-> TRUE, notify_uuid |-> "ffb2", poll_msg |-> "None",
             init_msg |-> "None", stop_msg |-> "None"]
      [] OTHER ->
            [ok |-> TRUE, notify_uuid |-> "None", poll_msg |-> "None",
             init_msg |-> "None", stop_msg |-> "None"]

\* lines 957-974: the attributes of the new decoder instance; a name that
\* is no key of the dict raises KeyError (ok is FALSE)
make_decoder(model) ==
    CASE model = "WT81B" ->
            [ok |-> TRUE, notify_uuid |-> "ff02", poll_msg |-> "poll",
             init_msg |-> "None", stop_msg |-> "None"]
      [] model = "BT985C_APP" ->
            [ok |-> TRUE, notify_uuid |-> "ffb2", poll_msg |-> "poll",
             init_msg |-> "init", stop_msg |-> "stop"]
      [] model = "TS04" ->
            [ok |-> TRUE, notify_uuid |-> "ffb2", poll_msg |-> "None",
             init_msg |-> "None", stop_msg |-> "None"]
      [] OTHER ->
            [ok |-> FALSE, notify_uuid |-> "None", poll_msg |-> "None",
             init_msg |-> "None", stop_msg |-> "None"]

\* line 1021: the configuration is read
LoadIni(sections) ==
    /\ ini.pc = "idle"
    /\ ini' = [sections |-> sections, pos |-> 1, pc |-> "register"]
    /\ UNCHANGED <<sessionVars, decoder, frame, call, earlierCall, lcdArg,
                   number, values, stats, session, lastCall>>

\* lines 1023-1030: one turn of the loop of meter_ini_register; the KeyError
\* of a missing Model key or of make_decoder leaves main
IniSection ==
    /\ ini.pc = "register" /\ ini.pos <= Len(ini.sections)
    /\ \E s \in {ini.sections[ini.pos]} : \E d \in {make_decoder(s.Model)} :
          IF s.Type \notin MeterTypes
          THEN /\ ini' = [ini EXCEPT !.pos = @ + 1]
               /\ UNCHANGED <<session, lastCall>>
          ELSE IF s.Model = "absent" \/ ~d.ok
          THEN /\ ini' = [ini EXCEPT !.pc = "raised"]
               /\ UNCHANGED <<session, lastCall>>
          ELSE \E a \in {[notify_uuid |-> d.notify_uuid, decode |-> "decode",
                           callback |-> "None", poll_msg |-> d.poll_msg,
                           init_msg |-> d.init_msg, stop_msg |-> d.stop_msg,
                           alias |-> "section", recycle |-> FALSE]} :
                 \E r \in {register_device(session, s.Address, a)} :
                    /\ session' = [r EXCEPT !.devices[s.Address] =
                                      SetItem(@, "model", s.Model)]
                    /\ lastCall' = Called(s.Address, a)
                    /\ ini' = [ini EXCEPT !.pos = @ + 1]
    /\ UNCHANGED <<sessionVars, decoder, frame, call, earlierCall, lcdArg,
                   number, values, stats>>

\* lines 1141-1143: no device is registered
MainExit ==
    /\ ini.pc = "register" /\ ini.pos > Len(ini.sections)
    /\ DOMAIN session.devices = {}
    /\ ini' = [ini EXCEPT !.pc = "exit"]
    /\ UNCHANGED <<sessionVars, decoder, frame, call, earlierCall, lcdArg,
                   number, values, stats, session, lastCall>>

\* line 1146, lines 857-859 and 848-850: session.start() makes one task for
\* each registered address
MainStart ==
    /\ ini.pc = "register" /\ ini.pos > Len(ini.sections)
    /\ DOMAIN session.devices # {}
    /\ cpc = "init"
    /\ ini' = [ini EXCEPT !.pc = "started"]
    /\ cpc' = "main"
    /\ loop' = "running"
    /\ pc' = [d \in Devices |->
                 IF d \in DOMAIN session.devices THEN "start" ELSE pc[d]]
    /\ UNCHANGED <<timer, pollDue, lastseen, quiet, link, gate, faults,
                   running, runErr, estAtClear, queue, nextId, snapshot,
                   batch, delivered, lastMessages, consumed, live, wait>>
    /\ UNCHANGED <<decoder, frame, call, earlierCall, lcdArg, number, values,
                   stats, session, lastCall>>

\* main up to the first step of each task, which takes the gate for its
\* connect attempt or waits for it
NextMain ==
    \/ \E sections \in IniFiles : LoadIni(sections)
    \/ IniSection
    \/ MainExit
    \/ MainStart
    \/ \E d \in Devices : StartTask(d)

MainSpec == InitSetup /\ [][NextMain]_vars

\* The watchdog: every device is subscribed, notifications arrive, time
\* passes and the watch loop of lines 809-813 runs until it declares a loss.
NextWatch ==
    \/ \E d \in Devices : \E r \in DecodeResults : Notify(d, r)
    \/ \E d \in Devices : WatchWake(d)
    \/ Tick

WatchSpec == InitStream /\ [][NextWatch]_vars

\* ---- the poll loop at the scale of its tick ----
\* time passes by one tick of the poll loop, 0.1 s
ShortTick ==
    /\ timer' = [d \in Devices |-> Max(0, timer[d] - PollTick)]
    /\ lastseen' = [d \in Devices |->
                      IF lastseen[d] = Never THEN Never
                      ELSE Min(AgeCap, lastseen[d] + PollTick)]
    /\ quiet' = [d \in Devices |->
                   IF link[d] = "subscribed"
                   THEN Min(AgeCap, quiet[d] + PollTick) ELSE 0]
    /\ pollDue' = [d \in Devices |->
                     IF pc[d] \in PollPcs
                     THEN Max(0 - LagCap, pollDue[d] - PollTick) ELSE 0]
    /\ UNCHANGED <<pc, link, gate, faults, running, runErr, loop,
                   estAtClear, consumerVars>>
    /\ UNCHANGED pureVars

PollStep(d) == PollSleepWake(d) \/ PollWaitWake(d) \/ PollWrite(d)

\* Every device is subscribed and the devices with a poll message are in
\* _poll_device; the consumer may call close().
NextPoll ==
    \/ \E d \in Devices : PollStep(d)
    \/ ShortTick
    \/ CloseCheck
    \/ CloseRelease

PollSpec == InitStream /\ [][NextPoll]_vars

\* the loop runs a task that is ready, and time passes
PollFairSpec ==
    PollSpec /\ WF_vars(ShortTick) /\ \A d \in Devices : WF_vars(PollStep(d))

\* ---- the retries at the scale of the watchdog's tick ----
\* The steps a task takes from its start to the watchdog and, through an
\* except clause of lines 819-836, back to line 793, while every notification
\* of device 1 carries a reading, the meter of device 2 sends nothing and
\* time passes by 0.1 s.
RetryStep(d) ==
    \/ StartTask(d)
    \/ GateWake(d)
    \/ Connect(d)
    \/ Subscribe(d)
    \/ SettleWake(d)
    \/ InitWrite(d)
    \/ InitSleepWake(d)
    \/ WatchWake(d)
    \/ BackoffWake(d)
    \/ CleanupRelease(d)

NextRetry ==
    \/ Start
    \/ \E d \in Devices : RetryStep(d)
    \/ Notify(1, "reading")
    \/ ShortTick

\* the session with device 1 registered with an init message and no poll
\* message
InitRetry == InitRegistered(RetryArgs) /\ InitSession

RetrySpec == InitRetry /\ [][NextRetry]_vars

\* ---- the live counter: the callback and the flush, line by line ----
\* lines 864-865 of _message_callback, on the scheduler thread: the record
\* of a result r is on the queue and reporting has yet to be called
CallbackPut(d, r) ==
    /\ Scheduled /\ link[d] = "subscribed"
    /\ live.pending = NoPending
    /\ nextId <= MaxMsgs
    /\ queue' = Enqueue(queue, <<[addr |-> d, id |-> nextId, data |-> r]>>)
    /\ nextId' = nextId + 1
    /\ quiet' = [quiet EXCEPT ![d] = 0]
    /\ live' = [live EXCEPT !.pending = [addr |-> d, unit |-> r.unit],
                            !.entered[d] = IF r.unit THEN @ + 1 ELSE @]
    /\ UNCHANGED <<pc, timer, pollDue, lastseen, link, gate, faults, running,
                   runErr, loop, estAtClear, cpc, snapshot, batch, delivered,
                   lastMessages, consumed, wait>>
    /\ UNCHANGED calcVars

\* lines 935-940: reporting counts a record whose unit is present
reporting(count, address, units) ==
    IF ~units THEN count
    ELSE [count EXCEPT ![address] = @ + 1]

\* lines 866-867 of _message_callback
CallbackReport ==
    /\ live.pending # NoPending
    /\ live' = [live EXCEPT
                  !.pending = NoPending,
                  !.count = reporting(@, live.pending.addr, live.pending.unit)]
    /\ lastseen' = [lastseen EXCEPT ![live.pending.addr] = 0]
    /\ UNCHANGED <<pc, timer, pollDue, quiet, link, gate, faults, running,
                   runErr, loop, estAtClear, consumerVars, wait>>
    /\ UNCHANGED calcVars

\* lines 881-886 of message_flush(), on the consumer thread: the queue is
\* not empty and the flush takes a record
LiveTake ==
    /\ queue # <<>>
    /\ cpc' = "flush"
    /\ (FlushBegin \/ FlushStep)

\* line 881: the queue is empty, the drain is over
LiveDrained ==
    /\ cpc \in {"main", "flush"}
    /\ queue = <<>>
    /\ cpc' = "clear"
    /\ snapshot' = IF cpc = "main" THEN <<>> ELSE snapshot
    /\ batch' = IF cpc = "main" THEN <<>> ELSE batch
    /\ live' = [live EXCEPT !.entered = [d \in Devices |-> 0]]
    /\ UNCHANGED <<taskVars, running, runErr, loop, estAtClear, queue, nextId,
                   delivered, lastMessages, consumed, wait>>
    /\ UNCHANGED calcVars

\* lines 889-894, with clear_count=True: the counter is a new dict
LiveClear ==
    /\ cpc = "clear"
    /\ cpc' = FlushEnd(lastMessages)
    /\ live' = [live EXCEPT !.count = [d \in Devices |-> 0], !.reset = TRUE]
    /\ UNCHANGED <<taskVars, running, runErr, loop, estAtClear, queue, nextId,
                   snapshot, batch, delivered, lastMessages, consumed, wait>>
    /\ UNCHANGED calcVars

NextLive ==
    \/ \E d \in Devices : \E r \in {Reading, Absent} : CallbackPut(d, r)
    \/ CallbackReport
    \/ LiveTake
    \/ LiveDrained
    \/ LiveClear

LiveSpec == InitStream /\ [][NextLive]_vars

\* ---- wait_for_meters ----
WaitPcs == {"wait_iter", "wait_get", "wait_flush"}

\* lines 905-906
WaitBegin ==
    /\ cpc = "main" /\ ~wait.active
    /\ cpc' = "wait_iter"
    /\ wait' = [active |-> TRUE, for |-> DOMAIN session.devices,
                left |-> WaitLimit]
    /\ UNCHANGED <<taskVars, running, runErr, loop, estAtClear, queue, nextId,
                   snapshot, batch, delivered, lastMessages, consumed, live>>
    /\ UNCHANGED calcVars

\* line 870, in the message_iter of line 908
WaitCheck ==
    /\ cpc = "wait_iter"
    /\ cpc' = IF running THEN "wait_get" ELSE "wait_flush"
    /\ UNCHANGED <<taskVars, running, runErr, loop, estAtClear, queue, nextId,
                   snapshot, batch, delivered, lastMessages, consumed, live,
                   wait>>
    /\ UNCHANGED calcVars

\* lines 872-879 and 909-914: after get() has timed out the generator goes
\* back to its loop test; after a record the caller looks at waiting_for
\* and at the clock
WaitTurn(for) ==
    IF queue = <<>> THEN "wait_iter"
    ELSE IF for = {} \/ wait.left < 0 THEN "wait_flush" ELSE "wait_iter"

WaitGet ==
    /\ cpc = "wait_get"
    /\ \E for \in {IF queue = <<>> THEN wait.for
                    ELSE wait.for \ {Head(queue).addr}} :
          /\ wait' = [wait EXCEPT !.for = for]
          /\ cpc' = WaitTurn(for)
    /\ IF queue # <<>>
       THEN /\ delivered' = Append(delivered, Head(queue).id)
            /\ consumed' = Append(consumed, Taken(Head(queue), "iter"))
            /\ queue' = Tail(queue)
       ELSE UNCHANGED <<queue, delivered, consumed>>
    /\ UNCHANGED <<taskVars, running, runErr, loop, estAtClear, nextId,
                   snapshot, batch, lastMessages, live>>
    /\ UNCHANGED calcVars

\* lines 873-876: KeyboardInterrupt while waiting in get()
WaitInterrupt ==
    /\ cpc = "wait_get"
    /\ IF running
       THEN /\ running' = FALSE
            /\ estAtClear' = {x \in Devices : pc[x] \in EstablishedPcs}
            /\ cpc' = "wait_iter"
            /\ UNCHANGED runErr
       ELSE /\ runErr' = TRUE
            /\ cpc' = "crashed"
            /\ UNCHANGED <<running, estAtClear>>
    /\ UNCHANGED <<taskVars, loop, queue, nextId, snapshot, batch, delivered,
                   lastMessages, consumed, live, wait>>
    /\ UNCHANGED calcVars

\* lines 915-919: list(self.message_flush(drop=True)), one turn of its drain
\* loop or, when the queue is empty, its end and the return
WaitFlush ==
    /\ cpc = "wait_flush"
    /\ IF queue # <<>>
       THEN /\ lastMessages' = [lastMessages EXCEPT
                                  ![Head(queue).addr] = Head(queue).id]
            /\ consumed' = Append(consumed, Taken(Head(queue), "drop"))
            /\ queue' = Tail(queue)
            /\ UNCHANGED <<cpc, wait, live>>
       ELSE /\ cpc' = FlushEnd(lastMessages)
            /\ wait' = [wait EXCEPT !.active = FALSE]
            /\ live' = [live EXCEPT !.count = [d \in Devices |-> 0]]
            /\ UNCHANGED <<queue, lastMessages, consumed>>
    /\ UNCHANGED <<taskVars, running, runErr, loop, estAtClear, nextId,
                   snapshot, batch, delivered>>
    /\ UNCHANGED calcVars

WaitStep == WaitBegin \/ WaitCheck \/ WaitGet \/ WaitFlush

\* time passes by one second while wait_for_meters may be under way
WaitTick ==
    /\ timer' = [d \in Devices |-> Max(0, timer[d] - TimeStep)]
    /\ lastseen' = [d \in Devices |->
                      IF lastseen[d] = Never THEN Never
                      ELSE Min(AgeCap, lastseen[d] + TimeStep)]
    /\ quiet' = [d \in Devices |->
                   IF link[d] = "subscribed"
                   THEN Min(AgeCap, quiet[d] + TimeStep) ELSE 0]
    /\ pollDue' = [d \in Devices |->
                     IF pc[d] \in PollPcs
                     THEN Max(0 - LagCap, pollDue[d] - TimeStep) ELSE 0]
    /\ wait' = [wait EXCEPT !.left = IF wait.active /\ @ >= 0
                                     THEN @ - TimeStep ELSE @]
    /\ UNCHANGED <<pc, link, gate, faults, running, runErr, loop,
                   estAtClear, consumerVars, live>>
    /\ UNCHANGED calcVars

NextWait ==
    \/ WaitStep
    \/ WaitInterrupt
    \/ \E d \in Devices : Notify(d, "reading")
    \/ WaitTick

WaitSpec == InitStream /\ [][NextWait]_vars

\* the consumer thread runs, and time passes
WaitFairSpec == WaitSpec /\ WF_vars(WaitStep) /\ WF_vars(WaitTick)

\* ---- the claims ----

\* C1: at most one device task is between acquiring the gate and the end of
\* its notification subscription (the connect and start_notify calls).
C1_GateMutualExclusion ==
    Cardinality({d \in Devices : pc[d] \in ConnectPcs}) <= 1

FatalPcs == {"cleanup", "failed", "raised"}
AllEnded == \A d \in Devices : pc[d] \in TerminalPcs
CloseCalled == cpc \in {"close_rel", "join", "closed", "crashed"}

\* C2: a machine with an established subscription, while the run signal is
\* set, that has had no notification for 2 seconds leaves the connection for
\* the retry path (or the silence ends, or the run signal is cleared).
C2_WatchdogLiveness ==
    \A d \in Devices :
       (pc[d] \in EstablishedPcs /\ running /\ quiet[d] >= 20)
          ~> (pc[d] \notin EstablishedPcs \/ ~running \/ quiet[d] < 20)

C4_FatalFailure ==
    /\ [][\A d \in Devices : pc[d] \in FatalPcs => pc'[d] \in FatalPcs]_vars
    /\ [][(faults' = "unexpected" /\ faults # "unexpected")
             => \E d \in Devices : pc[d] \notin FatalPcs /\ pc'[d] \in FatalPcs]_vars
    /\ [](\A d \in Devices : pc[d] \in {"failed", "raised"} => ~running)
    /\ (\E d \in Devices : pc[d] \in FatalPcs) ~> AllEnded

C4_Witness ==
    /\ faults = "unexpected" /\ AllEnded /\ ~running
    /\ \E d \in Devices : pc[d] = "failed"
    /\ \E d \in Devices : pc[d] = "closed"

\* C5: while no transport call has raised an unexpected exception, no machine
\* is on the fatal path and only the consumer clears the run signal.
C5_TransientStaysLocal ==
    faults # "unexpected" =>
       /\ \A d \in Devices : pc[d] \notin FatalPcs
       /\ running \/ cpc \in {"join", "closed"}

\* C6: no attempt to clear the run signal raises an error.
C6_ShutdownIdempotent == ~runErr

C8_GracefulShutdown ==
    faults = "none" =>
       \A d \in estAtClear :
          (HasStop(d) /\ pc[d] \in TerminalPcs) => pc[d] = "closed"

\* C9: a task enters its connect attempt holding the gate, it no longer holds
\* it when it goes on from the settle delay after start_notify, and no task
\* that is initializing, polling or watching holds it.
C9_GateScope ==
    /\ [](\A d \in Devices : pc[d] \in EstablishedPcs => gate.owner # d)
    /\ [][\A d \in Devices :
            (pc[d] # "connect" /\ pc'[d] = "connect")
               => (gate'.locked /\ gate'.owner = d)]_vars
    /\ [][\A d \in Devices :
            (pc[d] = "settle" /\ pc'[d] \notin {"settle", "cancelled"})
               => gate'.owner # d]_vars

C9_Witness ==
    \E d, e \in Devices :
       /\ pc[d] \in EstablishedPcs
       /\ pc[e] \in ConnectPcs /\ gate.locked /\ gate.owner = e

\* C10: the batch of a flush is what the queue held when draining began.
C10_FlushAtomic == cpc \notin FlushPcs => batch = snapshot

\* C11: the records of one device reach the consumer, through message_iter
\* and message_flush together, in the order in which the callback put them
\* on the queue (the record numbers count the puts).
C11_DeviceFifo ==
    \A i, j \in 1..Len(consumed) :
       (i < j /\ consumed[i].addr = consumed[j].addr)
          => consumed[i].id < consumed[j].id

C11_Witness ==
    /\ delivered # <<>> /\ batch # <<>>
    /\ \E i, j \in 1..Len(consumed) :
          i < j /\ consumed[i].addr = consumed[j].addr

\* C12: every record on the queue carries a triple, whose value and unit are
\* both present or both absent.
C12_ValueUnitPairing ==
    \A i \in 1..Len(queue) :
       queue[i].data.triple /\ (queue[i].data.value <=> queue[i].data.unit)

\* C15: every notification a device's callback receives sets that device's
\* lastseen to the time of receipt (age zero), whatever the decoder did.
C15_LastSeenRefresh ==
    [][\A d \in Devices : \A r \in DecodeResults :
          Notify(d, r) => lastseen'[d] = 0]_vars

\* C17: when a flush completes, the latest drained record of every address
\* registered with the recycle flag is on the queue again.
C17_Recycle ==
    [][(cpc \in FlushPcs /\ cpc' \notin FlushPcs)
          => \A d \in Devices :
                (RecycleFlag(d) /\ lastMessages'[d] # 0)
                   => \E i \in 1..Len(queue') :
                         queue'[i].id = lastMessages'[d]]_vars

\* C13: a decode call on a frame that fails the model's shape check returns
\* a list holding exactly one absent triple, and raises nothing.
C13_ShapeMismatchNormal ==
    (call.made /\ ~ShapeOk(decoder.model, call.buffer, call.data))
       => call.out = OneAbsent

\* C14: for the segment-table models, a decode call on a frame of the right
\* shape with merged segment bits that are no key of the segments table
\* returns an absent triple.
C14_SegmentMissContained ==
    (/\ call.made /\ decoder.model \in SegmentModels
     /\ ShapeOk(decoder.model, call.buffer, call.data)
     /\ SegmentMiss(decoder.model,
                    Display(decoder.model, call.buffer, call.data)))
       => call.out = OneAbsent

\* C16: a decode call given a frame with the bytes of the frame of an earlier
\* call of the same decoder instance, a frame that matched the pattern,
\* returns what the earlier call returned.
C16_DecodeDeterminism ==
    (/\ earlierCall.made /\ call.made
     /\ call.orig = earlierCall.orig
     /\ ShapeOk(decoder.model, earlierCall.buffer, earlierCall.data))
       => call.out = earlierCall.out

\* the overload condition of each model: the literal of the strings table
\* whose value is infinity, the '(overload)' flag bit, the reading 360600
OverloadLiteral(model, chars) ==
    HasKey(strings(model), chars) /\ Lookup(strings(model), chars) = Inf

Overload(model, shown) ==
    CASE model \in SegmentModels ->
           /\ ~SegmentMiss(model, shown)
           /\ OverloadLiteral(model, decode_digits(model, shown).chars)
      [] model = "UT383BT" ->
           /\ DigitsUT383BT(shown).ok
           /\ OverloadLiteral(model, DigitsUT383BT(shown).digits)
      [] model = "K1705" -> "(overload)" \in FlagsOf(model, shown)
      [] model = "WT81B" ->
           (Byte(shown, 6) * 256 + Byte(shown, 7))
              * (IF "x10" \in FlagsOf(model, shown) THEN 10 ELSE 1)
              * (IF "x100" \in FlagsOf(model, shown) THEN 100 ELSE 1)
           = 3606000
      [] OTHER -> FALSE

OverloadCall ==
    /\ call.made
    /\ ShapeOk(decoder.model, call.buffer, call.data)
    /\ Overload(decoder.model, Display(decoder.model, call.buffer, call.data))

\* C18: a decode call on a frame whose overload condition is set returns the
\* value +Infinity, whatever scaling and sign flags the frame has.
C18_OverloadInfinity ==
    OverloadCall
       => call.out.kind = "list" /\ call.out.items[1].value = Inf

C18_Witness ==
    /\ OverloadCall /\ call.out.kind = "list"
    /\ {"(overload)", "negative", "/100"} \subseteq call.out.items[1].flags
    /\ call.out.items[1].value = Inf

\* lines 81-83 with the flags of self.scaling taken in the reverse order
RECURSIVE ScaleBackwards(_, _, _)
ScaleBackwards(v, flagset, i) ==
    IF i < 1 THEN v
    ELSE ScaleBackwards(IF scaling[i][1] \in flagset
                        THEN Times(v, scaling[i][2]) ELSE v,
                        flagset, i - 1)

Product(l) == ScaleBackwards(PyInt(int(l.digits).n), l.flags, Len(scaling))

NumericCall ==
    /\ number.made
    /\ ~HasKey(strings(number.model), lcdArg.digits)
    /\ int(lcdArg.digits).ok

\* C19 as stated: for digits that are no literal of the strings table,
\* lcd_to_number returns their integer times the factor of every scaling
\* flag of the lcd, in whatever order the factors are taken.
C19_ScalingAsStated == NumericCall => Equal(number.out, Product(lcdArg))

\* the factors of the scaling flags of an lcd, in the order of self.scaling,
\* and v * x1 * x2 * ... for a sequence of factors
Factors(flagset) == SelectSeq(scaling, LAMBDA entry : entry[1] \in flagset)

RECURSIVE ProductOf(_, _)
ProductOf(v, factors) ==
    IF factors = <<>> THEN v
    ELSE ProductOf(Times(v, factors[1][2]), Tail(factors))

\* C19: for digits that are no literal of the strings table and an lcd
\* without the '(overload)' flag, lcd_to_number returns the integer of the
\* digits times the factor of every scaling flag of the lcd, each factor once
\* and in the order of the scaling table, every product rounded as a float
\* product is.
C19_ScalingComposes ==
    (NumericCall /\ "(overload)" \notin lcdArg.flags)
       => number.out = ProductOf(PyInt(int(lcdArg.digits).n),
                                 Factors(lcdArg.flags))

C19_Witness ==
    /\ NumericCall
    /\ lcdArg = [digits |-> <<"1", "2", "3", "4">>, flags |-> {"kilo", "/100"}]
    /\ number.out = ToFloat(PyInt(12340))

\* C20: statistics reports the elements of the sorted samples at the indices
\* round(0.25 n), n // 2 and min(round(0.75 n), n - 1); the indices are valid
\* and minimum <= quartile1 <= median <= quartile3 <= maximum; the median of
\* [1, 2, 3, 4] is 3.
C20_Percentiles ==
    stats.made =>
       LET n == Len(values)
       IN /\ round(n, 1) \in 0..(n - 1)
          /\ stats.quartile1 = values[round(n, 1) + 1]
          /\ stats.median = values[(n \div 2) + 1]
          /\ stats.quartile3 # IndexError
          /\ stats.quartile3 = values[Min(round(n, 3), n - 1) + 1]
          /\ stats.minimum <= stats.quartile1
          /\ stats.quartile1 <= stats.median
          /\ stats.median <= stats.quartile3
          /\ stats.quartile3 <= stats.maximum
          /\ values = <<1, 2, 3, 4>> => stats.median = 3

C20_Witness ==
    /\ stats.made /\ values = <<1, 2, 3, 4>> /\ stats.median = 3
    /\ stats.quartile1 = 2 /\ stats.quartile3 = 4

\* C21: after any sequence of register_device calls the registry holds, for
\* each address, exactly what the latest call for that address gave (an
\* address never registered has no entry; a message the latest call left
\* out is no key of the entry), and a call that repeats the arguments of the
\* latest call for its address leaves the registry as it was.
C21_LastWriteWins ==
    /\ [](\A d \in Devices :
            IF ~lastCall[d].made THEN d \notin DOMAIN session.devices
            ELSE /\ d \in DOMAIN session.devices
                 /\ LET e == session.devices[d]
                        a == lastCall[d].args
                    IN /\ DOMAIN e = BaseKeys \cup {k \in MsgKeys : a[k] # "None"}
                       /\ e["uuid"] = a.notify_uuid
                       /\ e["decode"] = (IF a.decode = "None" THEN "identity"
                                         ELSE a.decode)
                       /\ e["cb"] = "_message_callback"
                       /\ e["alias"] = a.alias
                       /\ e["client"] = "None" /\ e["lastseen"] = "0"
                       /\ \A k \in MsgKeys \cap DOMAIN e : e[k] = a[k])
    /\ [][\A d \in Devices :
            (lastCall'[d].repeated /\ ~lastCall[d].repeated)
               => session'.devices = session.devices]_vars

C21_Witness ==
    \E d \in Devices :
       /\ lastCall[d].made /\ lastCall[d].omitted
       /\ lastCall[d].args.poll_msg = "None"
       /\ DOMAIN session.devices = Devices
       /\ \E e \in Devices : lastCall[e].repeated

\* a device section whose Model is a name make_decoder does not know
UnknownModel(s) ==
    s.Type \in MeterTypes /\ s.Model # "absent"
       /\ s.Model \notin {"TS04", "WT81B", "BT985C_APP"}

\* C22: with a device section of an unknown model in the configuration, main
\* never gets past the registration, which ends with the error at that
\* section or before it: the session is not started and no task is made or
\* takes the gate for a connect attempt, whatever was registered before.
C22_ConfigErrorFatal ==
    \A i \in 1..Len(ini.sections) :
       UnknownModel(ini.sections[i])
          => /\ ini.pc \in {"register", "raised"}
             /\ ini.pc = "register" => ini.pos <= i
             /\ loop = "idle" /\ cpc = "init"
             /\ \A d \in Devices : pc[d] = "idle" /\ link[d] = "down"
             /\ ~gate.locked

C22_Witness ==
    /\ ini.pc = "raised"
    /\ UnknownModel(ini.sections[ini.pos])
    /\ DOMAIN session.devices = Devices
    /\ \A d \in Devices : pc[d] = "idle"

\* C23: the watchdog of a device declares the loss (it sets lastseen back to
\* never) only when more than 2 seconds have passed since the latest
\* notification of that device, whatever its frame held.
C23_NoSpuriousWatchdog ==
    [][\A d \in Devices :
          (lastseen[d] # Never /\ lastseen'[d] = Never)
             => quiet[d] > WatchdogLimit]_vars

\* C24: with the run signal cleared no task begins a connect attempt, and a
\* task that leaves the start, the wait for the gate or the backoff then
\* either ends without the gate and with its link down, or queues for the
\* gate, or is cancelled; it never reaches the transport's connect.
C24_NoConnectAfterCancel ==
    [][\A d \in Devices :
          ~running =>
             /\ (pc'[d] = "connect" => pc[d] = "connect")
             /\ (pc[d] \in {"start", "waitgate", "backoff"} /\ pc'[d] # pc[d])
                   => /\ pc'[d] \in {"stopped", "waitgate", "cancelled"}
                      /\ gate'.owner # d
                      /\ link'[d] = "down"
             /\ (pc[d] = "waitgate" /\ pc'[d] = "stopped") => ~gate'.locked]_vars

C24_Witness ==
    /\ ~running
    /\ \E d, e \in Devices :
          /\ pc[d] = "stopped" /\ pc[e] = "backoff" /\ timer[e] = 0
          /\ ~gate.locked /\ loop = "running"

\* C25: an HP90EPD decoder returns a reading only for a 6-byte packet given
\* while the buffer holds an 8-byte packet, and after a call on a packet that
\* is not 8 bytes long its buffer is empty, also when the decoding of the
\* two packets failed.
C25_TwoPacketReassembly ==
    (call.made /\ decoder.model = "HP90EPD")
       => /\ (/\ call.out.kind = "list"
               /\ \E i \in 1..Len(call.out.items) : ~call.out.items[i].none)
                 => (Len(call.data) = 6 /\ Len(call.buffer) = 8)
          /\ Len(call.data) # 8 => decoder.buffer = <<>>

\* C26: lastseen is never before the session is started, and a step sets
\* the lastseen of a device back to never only if it is the watchdog of that
\* device finding lastseen more than 2 seconds old and declaring the loss
\* (the task goes to the backoff of the timeout handler, its link is down).
C26_LastSeenReset ==
    /\ [](loop = "idle" => \A d \in Devices : lastseen[d] = Never)
    /\ [][\A d \in Devices :
            (lastseen[d] # Never /\ lastseen'[d] = Never)
               => /\ pc[d] = "watch_sleep" /\ lastseen[d] > WatchdogLimit
                  /\ pc'[d] = "backoff" /\ timer'[d] = TimeoutBackoff
                  /\ link'[d] = "down"]_vars

C26_Witness ==
    \E d \in Devices :
       /\ pc[d] = "backoff" /\ timer[d] = TimeoutBackoff
       /\ lastseen[d] = Never /\ faults = "transient"
       /\ \E i \in 1..Len(queue) : queue[i].addr = d

\* C27: a notification callback or a watchdog step of one device leaves the
\* lastseen of every other device as it was.
C27_LastSeenOwnership ==
    [][\A d \in Devices :
          ((\E r \in DecodeResults : Notify(d, r)) \/ WatchWake(d))
             => \A e \in Devices \ {d} : lastseen'[e] = lastseen[e]]_vars

C27_Witness ==
    \E d, e \in Devices :
       /\ pc[d] = "backoff" /\ lastseen[d] = Never
       /\ lastseen[e] # Never /\ lastseen[e] > 0
       /\ \E i \in 1..Len(queue) : queue[i].addr = d

\* C28: for a device with a poll message: polling begins with the run signal
\* set and the first write due one interval later; a write moves the due
\* time on by one interval from the time it was due, however late it is;
\* no write is made before it is due; no sleep of the loop is longer than
\* the tick of 0.1 s and the loop is entered again only with the run signal
\* set; and while the connection is up and the run signal set the payload
\* is written again and again.
C28_PollCadence ==
    /\ [](\A d \in Devices : pc[d] \in PollPcs => HasPoll(d))
    /\ [][\A d \in Devices :
            (pc[d] \notin PollPcs /\ pc'[d] \in PollPcs)
               => (running /\ pc'[d] = "poll_sleep"
                   /\ pollDue'[d] = PollSleep(d))]_vars
    /\ [][\A d \in Devices :
            (pc[d] = "poll_write" /\ pc'[d] \in PollPcs \ {"poll_write"})
               => pollDue'[d] = pollDue[d] + PollSleep(d)]_vars
    /\ [](\A d \in Devices : pc[d] = "poll_write" => pollDue[d] <= 0)
    /\ [](\A d \in Devices : pc[d] \in PollPcs => timer[d] <= PollTick)
    /\ [][\A d \in Devices :
            (pc'[d] = "poll_sleep" /\ <<pc[d], timer[d]>> # <<pc'[d], timer'[d]>>
                /\ timer'[d] = PollTick)
               => running]_vars
    /\ \A d \in Devices :
          HasPoll(d) => []<>(pc[d] = "poll_write" \/ ~running
                               \/ pc[d] \notin PollPcs)

C28_Witness ==
    \E d \in Devices :
       /\ HasPoll(d) /\ running /\ link[d] = "subscribed"
       /\ pc[d] = "poll_sleep" /\ timer[d] = PollTick
       /\ quiet[d] > PollSleep(d) /\ pollDue[d] > 0
       /\ pollDue[d] + quiet[d] = 2 * PollSleep(d)

\* C29: the gate that a task holds is released, or passes to another task,
\* only in a step of that task, and a task about to release the gate after
\* the settle delay (line 801) holds it.
C29_GateOwnership ==
    /\ [][\A d \in Devices :
            (gate.locked /\ gate.owner = d
                /\ (~gate'.locked \/ gate'.owner # d))
               => pc'[d] # pc[d]]_vars
    /\ [](\A d \in Devices :
            pc[d] = "settle" => (gate.locked /\ gate.owner = d))

\* C30: a task that leaves the connect and subscribe section, by success, by
\* a connect error, a timeout or a fatal failure, leaves the gate free, and
\* a task that waits for the gate gets it in the end (it goes on to its
\* connect attempt, or finds the run signal cleared, releases the gate and
\* ends).
C30_NoGateLeak ==
    /\ [][\A d \in Devices :
            (pc[d] \in ConnectPcs \cup {"settle"}
                /\ pc'[d] \notin ConnectPcs \cup {"settle", "cancelled"})
               => ~gate'.locked]_vars
    /\ \A d \in Devices :
          (pc[d] = "waitgate") ~> (pc[d] \in {"connect", "stopped"})

\* C31: a task that has connected again does not declare the loss of its
\* device earlier than 2 s after the new subscription, and never for a
\* lastseen that was recorded before that subscription
C31_FreshWindowAfterRetry ==
    [][\A d \in Devices :
          (pc[d] = "watch_sleep" /\ lastseen[d] # Never
             /\ lastseen'[d] = Never)
             => (quiet[d] > WatchdogLimit /\ lastseen[d] <= quiet[d])]_vars

\* C32: the run signal is set when the session is constructed, and no step
\* sets it once it is cleared
C32_RunSignalMonotonic ==
    running = TRUE /\ [][~running => ~running']_vars

\* close() released the run signal after _messy_cleanup had cleared it
C32_Witness ==
    ~running /\ runErr /\ cpc = "crashed"

\* the places of record id among the records that left the queue, and
\* among those the consumer was handed
TakenAt(id) == {i \in 1..Len(consumed) : consumed[i].id = id}
HandedAt(id) == {i \in TakenAt(id) : consumed[i].by # "drop"}
Queued(id) == \E i \in 1..Len(queue) : queue[i].id = id
\* the records the callbacks of devices without the recycle flag have put
PlainIds ==
    {id \in 1..(nextId - 1) :
        \A i \in 1..Len(consumed) :
           consumed[i].id = id => ~RecycleFlag(consumed[i].addr)}
       \ {queue[i].id : i \in {j \in 1..Len(queue) : RecycleFlag(queue[j].addr)}}

\* C33 as stated: a record of a device without the recycle flag is handed to
\* the consumer at most once, and while it has not been handed out it is on
\* the queue
C33_AtMostOnce ==
    \A id \in PlainIds :
       /\ Cardinality(HandedAt(id)) <= 1
       /\ HandedAt(id) = {} => Queued(id)

\* C33, amended: a record of a device without the recycle flag is handed to
\* the consumer at most once, and while it has neither been handed out nor
\* been discarded by message_flush(drop=True) it is on the queue
C33_AtMostOnceUnlessDropped ==
    \A id \in PlainIds :
       /\ Cardinality(HandedAt(id)) <= 1
       /\ Cardinality(TakenAt(id)) <= 1
       /\ TakenAt(id) = {} <=> Queued(id)

\* message_iter has handed out a record and stopped on the cleared run
\* signal, and a later record of a device without the flag is on the queue
C33_Witness ==
    /\ ~running /\ cpc = "main"
    /\ delivered # <<>>
    /\ \E i \in 1..Len(queue) :
          ~RecycleFlag(queue[i].addr) /\ queue[i].id \in PlainIds

\* C34: once a flush has reset the live counter and no flush and no callback
\* is under way, the counter of every device is the number of records with
\* a unit that the callbacks have put on the queue since the drain of the
\* latest flush ended
C34_LiveCounterConsistent ==
    (live.reset /\ cpc = "main" /\ live.pending = NoPending)
       => \A d \in Devices : live.count[d] = live.entered[d]

\* C35: wait_for_meters returns once every registered address has delivered
\* a record or its 30 s have passed, also when no device delivers a record
C35_WaitTerminates ==
    wait.active ~> ~wait.active

====
